---- MODULE Spec2Model ----
(***************************************************************************)
(* A model of the EPL data pipeline (src/data-pipeline): team-name and     *)
(* match normalisation (data_sources/football_data.py), the odds join      *)
(* (data_sources/odds_api.py), validation and the upsert (database.py),    *)
(* and the orchestration of etl_main.py.                                   *)
(*                                                                         *)
(* Python values are modelled as follows.  A str is the sequence of its    *)
(* characters, so that replace(), slicing, formatting and parsing are      *)
(* computed, not assumed.  None is the empty sequence <<>> (the empty      *)
(* string is in none of the input sets, so the two are never confused).    *)
(* An optional int or dict v is Some(v) = <<v>>.  A dict is a record or a  *)
(* function; a key is absent when it is not in the DOMAIN.  A function     *)
(* that can raise has a companion predicate <name>_raises.                 *)
(***************************************************************************)
EXTENDS Integers, Sequences, FiniteSets, TLC

VARIABLES
    store,      \* the rows of the "matches" table, in insertion order
    today,      \* datetime.now().date(), as a proleptic Gregorian ordinal
    op,         \* the operation that returned last
    arg,        \* its arguments and what the collaborators answered
    ret,        \* what it returned
    requests,   \* the dates it asked the odds source for, in order
    clock,      \* time.time(), in seconds since the clients were constructed
    clients,    \* request_count and last_request_time of the two API clients
    sent        \* for each client, the times of the requests it has issued

\* the state of the transport layer
transport == <<clock, clients, sent>>

vars == <<store, today, op, arg, ret, requests, clock, clients, sent>>

----------------------------------------------------------------------------
(* Python values *)

None == <<>>
Some(v) == <<v>>
Has(d, k) == k \in DOMAIN d
\* dict.get(k): None when the key is absent
Get(d, k) == IF Has(d, k) THEN d[k] ELSE None

\* d[k] = v on a dict
SetItem(d, k, v) == [j \in (DOMAIN d) \cup {k} |-> IF j = k THEN v ELSE d[j]]

Digits == <<"0", "1", "2", "3", "4", "5", "6", "7", "8", "9">>
IsDigit(c) == \E n \in 1..10 : Digits[n] = c
DigitVal(c) == (CHOOSE n \in 1..10 : Digits[n] = c) - 1
AllDigits(s) == \A i \in 1..Len(s) : IsDigit(s[i])

\* int(s) for a string of decimal digits
RECURSIVE ToInt(_)
ToInt(s) ==
    IF Len(s) = 0 THEN 0
    ELSE 10 * ToInt(SubSeq(s, 1, Len(s) - 1)) + DigitVal(s[Len(s)])

\* str(n) for n >= 0
RECURSIVE ToStr(_)
ToStr(n) ==
    IF n < 10 THEN <<Digits[n + 1]>>
    ELSE ToStr(n \div 10) \o <<Digits[(n % 10) + 1]>>

\* the zero-padded decimal of n in at least w characters (%02d, %04d)
RECURSIVE Pad(_, _)
Pad(n, w) == IF Len(ToStr(n)) >= w THEN ToStr(n) ELSE <<"0">> \o Pad(n, w - 1)

\* str.replace(old, new) for a one-character old
RECURSIVE Replace(_, _, _)
Replace(s, old, new) ==
    IF Len(s) = 0 THEN <<>>
    ELSE (IF Head(s) = old THEN new ELSE <<Head(s)>>) \o Replace(Tail(s), old, new)

\* s[a:b] with 0-based a and exclusive b, clipped as Python clips a slice
Slice(s, a, b) == SubSeq(s, a + 1, IF b > Len(s) THEN Len(s) ELSE b)

----------------------------------------------------------------------------
(* datetime.date *)

IsLeap(y) == (y % 4 = 0) /\ ((y % 100 # 0) \/ (y % 400 = 0))
DaysInMonth(y, m) ==
    IF m = 2 THEN (IF IsLeap(y) THEN 29 ELSE 28)
    ELSE IF m \in {4, 6, 9, 11} THEN 30 ELSE 31
RECURSIVE DaysBeforeMonth(_, _)
DaysBeforeMonth(y, m) ==
    IF m = 1 THEN 0 ELSE DaysBeforeMonth(y, m - 1) + DaysInMonth(y, m - 1)

Date(y, m, d) == [year |-> y, month |-> m, day |-> d]
\* date.toordinal(): (a - b).days = toordinal(a) - toordinal(b)
toordinal(dt) ==
    LET y == dt.year - 1
    IN  365 * y + (y \div 4) - (y \div 100) + (y \div 400)
        + DaysBeforeMonth(dt.year, dt.month) + dt.day
\* date.isoformat(): YYYY-MM-DD
isoformat(dt) ==
    Pad(dt.year, 4) \o <<"-">> \o Pad(dt.month, 2) \o <<"-">> \o Pad(dt.day, 2)
\* date.strftime('%Y_%m_%d')
strftime_Y_m_d(dt) ==
    Pad(dt.year, 4) \o <<"_">> \o Pad(dt.month, 2) \o <<"_">> \o Pad(dt.day, 2)

\* the YYYY-MM-DD prefix of s names a calendar date
IsIsoDate(s) ==
    /\ Len(s) >= 10
    /\ AllDigits(SubSeq(s, 1, 4)) /\ s[5] = "-"
    /\ AllDigits(SubSeq(s, 6, 7)) /\ s[8] = "-"
    /\ AllDigits(SubSeq(s, 9, 10))
    /\ ToInt(SubSeq(s, 1, 4)) >= 1
    /\ ToInt(SubSeq(s, 6, 7)) \in 1..12
    /\ ToInt(SubSeq(s, 9, 10)) \in
           1..DaysInMonth(ToInt(SubSeq(s, 1, 4)), ToInt(SubSeq(s, 6, 7)))
\* s is HH:MM:SS
IsIsoTime(s) ==
    /\ Len(s) = 8
    /\ AllDigits(SubSeq(s, 1, 2)) /\ s[3] = ":"
    /\ AllDigits(SubSeq(s, 4, 5)) /\ s[6] = ":"
    /\ AllDigits(SubSeq(s, 7, 8))
    /\ ToInt(SubSeq(s, 1, 2)) \in 0..23
    /\ ToInt(SubSeq(s, 4, 5)) \in 0..59
    /\ ToInt(SubSeq(s, 7, 8)) \in 0..59
\* s is +HH:MM or -HH:MM
IsIsoOffset(s) ==
    /\ Len(s) = 6
    /\ s[1] \in {"+", "-"}
    /\ AllDigits(SubSeq(s, 2, 3)) /\ s[4] = ":" /\ AllDigits(SubSeq(s, 5, 6))
    /\ ToInt(SubSeq(s, 2, 3)) \in 0..23
    /\ ToInt(SubSeq(s, 5, 6)) \in 0..59
\* datetime.fromisoformat(s) returns: a date, then optionally one separator
\* character and HH:MM:SS, then optionally a UTC offset (the forms the input
\* sets hold); None is a TypeError and a string of no such form a ValueError
fromisoformat_TypeError(s) == s = None
fromisoformat_ok(s) ==
    /\ s # None
    /\ IsIsoDate(s)
    /\ \/ Len(s) = 10
       \/ Len(s) = 19 /\ IsIsoTime(SubSeq(s, 12, 19))
       \/ Len(s) = 25 /\ IsIsoTime(SubSeq(s, 12, 19)) /\ IsIsoOffset(SubSeq(s, 20, 25))
fromisoformat_ValueError(s) == s # None /\ ~fromisoformat_ok(s)
\* datetime.fromisoformat(s).date(): the date as written, whatever the offset
fromisoformat_date(s) ==
    Date(ToInt(SubSeq(s, 1, 4)), ToInt(SubSeq(s, 6, 7)), ToInt(SubSeq(s, 9, 10)))

----------------------------------------------------------------------------
(* config.py *)

ODDS_API_HISTORICAL_LIMIT_DAYS == 3

TEAM_MAPPINGS ==
    \* 'Man City': 'Manchester City'
    (<<"M","a","n"," ","C","i","t","y">>
       :> <<"M","a","n","c","h","e","s","t","e","r"," ","C","i","t","y">>)
    \* 'Man Utd': 'Manchester United'
    @@ (<<"M","a","n"," ","U","t","d">>
       :> <<"M","a","n","c","h","e","s","t","e","r"," ","U","n","i","t","e","d">>)
    \* 'Spurs': 'Tottenham'
    @@ (<<"S","p","u","r","s">>
       :> <<"T","o","t","t","e","n","h","a","m">>)
    \* 'Brighton': 'Brighton & Hove Albion'
    @@ (<<"B","r","i","g","h","t","o","n">>
       :> <<"B","r","i","g","h","t","o","n"," ","&"," ","H","o","v","e"," ","A","l","b","i","o","n">>)
    \* 'West Ham': 'West Ham United'
    @@ (<<"W","e","s","t"," ","H","a","m">>
       :> <<"W","e","s","t"," ","H","a","m"," ","U","n","i","t","e","d">>)
    \* 'Newcastle': 'Newcastle United'
    @@ (<<"N","e","w","c","a","s","t","l","e">>
       :> <<"N","e","w","c","a","s","t","l","e"," ","U","n","i","t","e","d">>)
    \* 'Wolves': 'Wolverhampton Wanderers'
    @@ (<<"W","o","l","v","e","s">>
       :> <<"W","o","l","v","e","r","h","a","m","p","t","o","n"," ","W","a","n","d","e","r","e","r","s">>)
    \* 'Leicester': 'Leicester City'
    @@ (<<"L","e","i","c","e","s","t","e","r">>
       :> <<"L","e","i","c","e","s","t","e","r"," ","C","i","t","y">>)
    \* 'Crystal Palace': 'Crystal Palace'
    @@ (<<"C","r","y","s","t","a","l"," ","P","a","l","a","c","e">>
       :> <<"C","r","y","s","t","a","l"," ","P","a","l","a","c","e">>)
    \* 'Nottingham Forest': 'Nottingham Forest'
    @@ (<<"N","o","t","t","i","n","g","h","a","m"," ","F","o","r","e","s","t">>
       :> <<"N","o","t","t","i","n","g","h","a","m"," ","F","o","r","e","s","t">>)
    \* 'Leeds': 'Leeds United'
    @@ (<<"L","e","e","d","s">>
       :> <<"L","e","e","d","s"," ","U","n","i","t","e","d">>)
    \* 'Everton': 'Everton'
    @@ (<<"E","v","e","r","t","o","n">>
       :> <<"E","v","e","r","t","o","n">>)
    \* 'Brentford': 'Brentford'
    @@ (<<"B","r","e","n","t","f","o","r","d">>
       :> <<"B","r","e","n","t","f","o","r","d">>)
    \* 'Fulham': 'Fulham'
    @@ (<<"F","u","l","h","a","m">>
       :> <<"F","u","l","h","a","m">>)
    \* 'Bournemouth': 'AFC Bournemouth'
    @@ (<<"B","o","u","r","n","e","m","o","u","t","h">>
       :> <<"A","F","C"," ","B","o","u","r","n","e","m","o","u","t","h">>)
    \* 'Sheffield United': 'Sheffield United'
    @@ (<<"S","h","e","f","f","i","e","l","d"," ","U","n","i","t","e","d">>
       :> <<"S","h","e","f","f","i","e","l","d"," ","U","n","i","t","e","d">>)
    \* 'Burnley': 'Burnley'
    @@ (<<"B","u","r","n","l","e","y">>
       :> <<"B","u","r","n","l","e","y">>)
    \* 'Luton': 'Luton Town'
    @@ (<<"L","u","t","o","n">>
       :> <<"L","u","t","o","n"," ","T","o","w","n">>)

FOOTBALL_DATA_FREE_TIER_START_SEASON == <<"2","0","2","3">>

----------------------------------------------------------------------------
(* data_sources/football_data.py and odds_api.py: normalisation *)

\* the lookup with 'Manchester City' entered as an alias of 'Man City' too
normalize_team_name_two_way(team_name) ==
    IF team_name = <<"M","a","n","c","h","e","s","t","e","r"," ","C","i","t","y">>
    THEN <<"M","a","n"," ","C","i","t","y">>
    ELSE IF team_name \in DOMAIN TEAM_MAPPINGS THEN TEAM_MAPPINGS[team_name]
    ELSE team_name

\* TEAM_MAPPINGS.get(team_name, team_name)
FootballDataAPI_normalize_team_name(team_name) ==
    IF team_name \in DOMAIN TEAM_MAPPINGS THEN TEAM_MAPPINGS[team_name] ELSE team_name

OddsAPI_normalize_team_name(team_name) ==
    IF team_name \in DOMAIN TEAM_MAPPINGS THEN TEAM_MAPPINGS[team_name] ELSE team_name

\* match['utcDate'].replace('Z', '+00:00')
utcDate_replaced(match) == Replace(match.utcDate, "Z", <<"+","0","0",":","0","0">>)

\* normalize_match_data raises (KeyError, AttributeError, TypeError or
\* ValueError): a key it subscripts is absent, a value it calls a str method
\* on is None, or a date or year does not parse
normalize_match_data_raises(match) ==
    \/ ~Has(match, "utcDate")
    \/ match.utcDate = None
    \/ ~fromisoformat_ok(utcDate_replaced(match))
    \/ ~Has(match, "homeTeam") \/ ~Has(match.homeTeam, "name")
    \/ ~Has(match, "awayTeam") \/ ~Has(match.awayTeam, "name")
    \/ match.homeTeam.name = None
    \/ match.awayTeam.name = None
    \/ ~Has(match, "season") \/ ~Has(match.season, "startDate")
    \/ match.season.startDate = None
    \/ Slice(match.season.startDate, 0, 4) = <<>>
    \/ ~AllDigits(Slice(match.season.startDate, 0, 4))

\* match['season']['startDate'][:4] + "/" + str(int(...[:4]) + 1)[2:]
season_label(startDate) ==
    LET year == Slice(startDate, 0, 4)
        next == ToStr(ToInt(year) + 1)
    IN  year \o <<"/">> \o Slice(next, 2, Len(next))

\* the f-string of line 109
make_match_id(match_date, home_team, away_team) ==
    <<"E","P","L","_">> \o strftime_Y_m_d(match_date) \o <<"_">>
        \o Replace(home_team, " ", <<"_">>) \o <<"_">>
        \o Replace(away_team, " ", <<"_">>)

\* normalize_match_data with the id built from the names as the source
\* printed them
normalize_match_data_raw_id(match) ==
    LET match_date == fromisoformat_date(utcDate_replaced(match))
        home_team == FootballDataAPI_normalize_team_name(match.homeTeam.name)
        away_team == FootballDataAPI_normalize_team_name(match.awayTeam.name)
        score == IF Has(match, "score") THEN match.score ELSE <<>>
        full_time == IF Has(score, "fullTime") THEN score.fullTime ELSE <<>>
    IN  [ match_id     |-> make_match_id(match_date, match.homeTeam.name,
                                         match.awayTeam.name),
          date         |-> isoformat(match_date),
          home_team    |-> home_team,
          away_team    |-> away_team,
          result_home  |-> Get(full_time, "home"),
          result_away  |-> Get(full_time, "away"),
          league       |-> <<"P","r","e","m","i","e","r"," ","L","e","a","g","u","e">>,
          season       |-> season_label(match.season.startDate),
          market       |-> <<"1","X","2">>,
          odds_opening |-> None,
          odds_closing |-> None,
          xg           |-> None ]

normalize_match_data(match) ==
    LET match_date == fromisoformat_date(utcDate_replaced(match))
        home_team == FootballDataAPI_normalize_team_name(match.homeTeam.name)
        away_team == FootballDataAPI_normalize_team_name(match.awayTeam.name)
        score == IF Has(match, "score") THEN match.score ELSE <<>>
        full_time == IF Has(score, "fullTime") THEN score.fullTime ELSE <<>>
    IN  [ match_id     |-> make_match_id(match_date, home_team, away_team),
          date         |-> isoformat(match_date),
          home_team    |-> home_team,
          away_team    |-> away_team,
          result_home  |-> Get(full_time, "home"),
          result_away  |-> Get(full_time, "away"),
          league       |-> <<"P","r","e","m","i","e","r"," ","L","e","a","g","u","e">>,
          season       |-> season_label(match.season.startDate),
          market       |-> <<"1","X","2">>,
          odds_opening |-> None,
          odds_closing |-> None,
          xg           |-> None ]

\* a loop that the first record that does not normalise ends
RECURSIVE normalize_all_abort_on_error(_)
normalize_all_abort_on_error(raw_matches) ==
    IF raw_matches = <<>> \/ normalize_match_data_raises(Head(raw_matches)) THEN <<>>
    ELSE <<normalize_match_data(Head(raw_matches))>>
         \o normalize_all_abort_on_error(Tail(raw_matches))

\* the loop of get_season_matches: the records that normalise, in order
RECURSIVE normalize_all(_)
normalize_all(raw_matches) ==
    IF raw_matches = <<>> THEN <<>>
    ELSE (IF normalize_match_data_raises(Head(raw_matches)) THEN <<>>
          ELSE <<normalize_match_data(Head(raw_matches))>>)
         \o normalize_all(Tail(raw_matches))

\* a client that takes every season as accessible
season_is_restricted_never(season) == FALSE

\* int(season) < int(FOOTBALL_DATA_FREE_TIER_START_SEASON)
season_is_restricted(season) ==
    ToInt(season) < ToInt(FOOTBALL_DATA_FREE_TIER_START_SEASON)

\* raw_matches is what get_competition_matches answered (<<>> after a
\* failed request); it is not asked for a restricted season
get_season_matches(season, raw_matches) ==
    IF season_is_restricted(season) THEN <<>> ELSE normalize_all(raw_matches)

\* the seasons get_competition_matches is called for (line 151), in call order
season_requests(season) ==
    IF season_is_restricted(season) THEN <<>> ELSE <<season>>

----------------------------------------------------------------------------
(* data_sources/odds_api.py: the odds join *)

h2h == <<"h", "2", "h">>
NoOdds == [opening |-> None, closing |-> None]

\* the first market whose key is 'h2h', as a sequence of at most one market
RECURSIVE first_h2h(_)
first_h2h(markets) ==
    IF markets = <<>> THEN <<>>
    ELSE IF Get(Head(markets), "key") = h2h THEN <<Head(markets)>>
    ELSE first_h2h(Tail(markets))

\* the outcomes extract_odds_data loops over: those of the first bookmaker's
\* h2h market, <<>> when it returns early
h2h_outcomes(odds_match) ==
    LET bookmakers == Get(odds_match, "bookmakers")
        markets == IF bookmakers = <<>> THEN <<>> ELSE Get(bookmakers[1], "markets")
        found == first_h2h(markets)
    IN  IF found = <<>> THEN <<>> ELSE Get(found[1], "outcomes")

\* outcome['name'] or outcome['price'] is a KeyError
extract_odds_data_raises(odds_match) ==
    \E i \in 1..Len(h2h_outcomes(odds_match)) :
        ~Has(h2h_outcomes(odds_match)[i], "name")
        \/ ~Has(h2h_outcomes(odds_match)[i], "price")

\* a loop that compares the outcome's name with the normalised names of the
\* record
RECURSIVE label_outcomes_canonical(_, _, _)
label_outcomes_canonical(outcomes, odds_match, odds) ==
    IF outcomes = <<>> THEN odds
    ELSE LET outcome == Head(outcomes)
             code == IF outcome.name = OddsAPI_normalize_team_name(Get(odds_match, "home_team"))
                     THEN "1"
                     ELSE IF outcome.name
                               = OddsAPI_normalize_team_name(Get(odds_match, "away_team"))
                     THEN "2"
                     ELSE "X"
         IN  label_outcomes_canonical(Tail(outcomes), odds_match,
                                      [c \in (DOMAIN odds) \cup {code} |->
                                           IF c = code THEN outcome.price ELSE odds[c]])

\* the loop of lines 191-198: odds is a dict from the codes "1", "X", "2"
\* to prices; a later outcome of a code replaces an earlier one
RECURSIVE label_outcomes(_, _, _)
label_outcomes(outcomes, odds_match, odds) ==
    IF outcomes = <<>> THEN odds
    ELSE LET outcome == Head(outcomes)
             code == IF outcome.name = Get(odds_match, "home_team") THEN "1"
                     ELSE IF outcome.name = Get(odds_match, "away_team") THEN "2"
                     ELSE "X"
         IN  label_outcomes(Tail(outcomes), odds_match,
                            [c \in (DOMAIN odds) \cup {code} |->
                                 IF c = code THEN outcome.price ELSE odds[c]])

extract_odds_data(odds_match) ==
    LET outcomes == h2h_outcomes(odds_match)
        odds == label_outcomes(outcomes, odds_match, <<>>)
    IN  IF outcomes = <<>> THEN NoOdds
        ELSE [opening |-> Some(odds), closing |-> Some(odds)]

\* (current_date - match_date).days
days_ago(match, current_date) ==
    current_date - toordinal(fromisoformat_date(match.date))

\* the dates of all the matches, with no regard to the historical limit
dates_to_process_unlimited(matches, current_date) ==
    { isoformat(fromisoformat_date(matches[i].date)) : i \in 1..Len(matches) }

\* lines 116-125: the dates within the historical limit, as ISO strings
dates_to_process(matches, current_date) ==
    { isoformat(fromisoformat_date(matches[i].date)) :
          i \in { j \in 1..Len(matches) :
                      ~(days_ago(matches[j], current_date)
                            > ODDS_API_HISTORICAL_LIMIT_DAYS) } }

\* sorted(dates_to_process): YYYY-MM-DD strings sort in calendar order
RECURSIVE sorted_dates(_)
sorted_dates(dates) ==
    IF dates = {} THEN <<>>
    ELSE LET first == CHOOSE d \in dates : \A e \in dates :
                          toordinal(fromisoformat_date(d))
                              <= toordinal(fromisoformat_date(e))
         IN  <<first>> \o sorted_dates(dates \ {first})

\* lines 143-146: the first match of the list the odds record belongs to,
\* 0 when there is none
first_match_for(odds_match, matches, date_str) ==
    LET home_team == OddsAPI_normalize_team_name(Get(odds_match, "home_team"))
        away_team == OddsAPI_normalize_team_name(Get(odds_match, "away_team"))
        hits == { i \in 1..Len(matches) :
                      /\ matches[i].home_team = home_team
                      /\ matches[i].away_team = away_team
                      /\ matches[i].date = date_str }
    IN  IF hits = {} THEN 0 ELSE CHOOSE i \in hits : \A j \in hits : i <= j

\* the loop over one date's answer that keeps the first odds stored for a
\* match_id
RECURSIVE process_response_first_wins(_, _, _, _)
process_response_first_wins(odds_response, matches, date_str, odds_data) ==
    IF odds_response = <<>> THEN odds_data
    ELSE LET odds_match == Head(odds_response)
             hit == first_match_for(odds_match, matches, date_str)
         IN  IF hit = 0
             THEN process_response_first_wins(Tail(odds_response), matches,
                                              date_str, odds_data)
             ELSE IF extract_odds_data_raises(odds_match) THEN odds_data
             ELSE process_response_first_wins(Tail(odds_response), matches, date_str,
                      IF matches[hit].match_id \in DOMAIN odds_data THEN odds_data
                      ELSE SetItem(odds_data, matches[hit].match_id,
                                   extract_odds_data(odds_match)))

\* lines 137-153 for one date: every record of the answer in turn; an
\* exception ends the work on this date and keeps what was stored before it
RECURSIVE process_response(_, _, _, _)
process_response(odds_response, matches, date_str, odds_data) ==
    IF odds_response = <<>> THEN odds_data
    ELSE LET odds_match == Head(odds_response)
             hit == first_match_for(odds_match, matches, date_str)
         IN  IF hit = 0
             THEN process_response(Tail(odds_response), matches, date_str, odds_data)
             ELSE IF extract_odds_data_raises(odds_match) THEN odds_data
             ELSE process_response(Tail(odds_response), matches, date_str,
                      SetItem(odds_data, matches[hit].match_id,
                              extract_odds_data(odds_match)))

\* lines 131-155: odds_source[d] is what get_historical_odds answers for d
RECURSIVE process_dates(_, _, _, _)
process_dates(dates, matches, odds_source, odds_data) ==
    IF dates = <<>> THEN odds_data
    ELSE process_dates(Tail(dates), matches, odds_source,
             process_response(odds_source[Head(dates)], matches, Head(dates),
                              odds_data))

\* datetime.fromisoformat(match['date']) of line 117 raises: it is outside
\* every try block, so get_odds_for_matches raises too
get_odds_for_matches_raises(matches) ==
    \E i \in 1..Len(matches) :
        ~Has(matches[i], "date") \/ ~fromisoformat_ok(matches[i].date)

\* one call of get_historical_odds for every match within the limit
odds_requests_per_match(matches, current_date) ==
    LET within == SelectSeq(matches, LAMBDA match :
                      ~(days_ago(match, current_date) > ODDS_API_HISTORICAL_LIMIT_DAYS))
    IN  [i \in 1..Len(within) |-> isoformat(fromisoformat_date(within[i].date))]

\* the dates get_historical_odds is called for, in call order
odds_requests(matches, current_date) ==
    sorted_dates(dates_to_process(matches, current_date))

get_odds_for_matches(matches, current_date, odds_source) ==
    process_dates(odds_requests(matches, current_date), matches, odds_source, <<>>)

\* lines 222-230: a copy of the match, with the odds fields set when
\* odds_data holds its match_id
enrich_one(match, odds_data) ==
    IF match.match_id \in DOMAIN odds_data
    THEN SetItem(SetItem(match, "odds_opening", odds_data[match.match_id].opening),
                 "odds_closing", odds_data[match.match_id].closing)
    ELSE match

enrich_matches_with_odds(matches, current_date, odds_source) ==
    LET odds_data == get_odds_for_matches(matches, current_date, odds_source)
    IN  [i \in 1..Len(matches) |-> enrich_one(matches[i], odds_data)]

\* The same loop over objects: a dict is a place in objects, a variable
\* holds the place.  enriched_match = match, without the copy:
dict_alias(objects, ref) == [objects |-> objects, ref |-> ref]

\* line 223, match.copy(): a new dict with the items of the old one
dict_copy(objects, ref) ==
    [objects |-> Append(objects, objects[ref]), ref |-> Len(objects) + 1]

\* lines 222-230 for the matches from position i on: the writes of lines
\* 227-228 go to the dict enriched_match holds; enriched holds the places
\* appended to enriched_matches
RECURSIVE enrich_loop(_, _, _, _, _)
enrich_loop(objects, matches, i, odds_data, enriched) ==
    IF i > Len(matches) THEN [objects |-> objects, enriched_matches |-> enriched]
    ELSE LET copied == dict_copy(objects, matches[i])
             enriched_match == copied.ref
             written == [copied.objects EXCEPT
                            ![enriched_match] = enrich_one(@, odds_data)]
         IN  enrich_loop(written, matches, i + 1, odds_data,
                         Append(enriched, enriched_match))

\* the dicts of the caller's list matches when enrich_matches_with_odds
\* has returned
enrich_inputs_after(matches, current_date, odds_source) ==
    LET odds_data == get_odds_for_matches(matches, current_date, odds_source)
        refs == [i \in 1..Len(matches) |-> i]
        after == enrich_loop(matches, refs, 1, odds_data, <<>>)
    IN  [i \in 1..Len(matches) |-> after.objects[refs[i]]]

----------------------------------------------------------------------------
(* database.py: validation and the upsert *)

required_fields == <<"match_id", "date", "home_team", "away_team", "season">>

\* datetime.fromisoformat(match["date"]) raises a TypeError, which the
\* except clause of line 236 does not catch
validate_match_data_raises(match) ==
    Has(match, "date") /\ fromisoformat_TypeError(match.date)

\* a validator that does not look at the required fields
missing_fields_unchecked(match, fields) == <<>>

\* lines 227-230: one reason for every required field that is absent or None
RECURSIVE missing_fields(_, _)
missing_fields(match, fields) ==
    IF fields = <<>> THEN <<>>
    ELSE (IF ~Has(match, Head(fields)) \/ match[Head(fields)] = None
          THEN << <<"Missing required field", Head(fields)>> >> ELSE <<>>)
         \o missing_fields(match, Tail(fields))

\* lines 240-246: a result that is present and is negative (results are
\* ints or None in every input set)
invalid_result(match, field) ==
    /\ Get(match, field) # None
    /\ match[field][1] < 0

\* the list of violation reasons, for a match on which it does not raise
validate_match_data(match) ==
    missing_fields(match, required_fields)
    \o (IF ~Has(match, "date") \/ fromisoformat_ValueError(match.date)
        THEN << <<"Invalid date format">> >> ELSE <<>>)
    \o (IF invalid_result(match, "result_home")
        THEN << <<"Invalid home result">> >> ELSE <<>>)
    \o (IF invalid_result(match, "result_away")
        THEN << <<"Invalid away result">> >> ELSE <<>>)

\* select("id").eq("match_id", match_id) returns a row
Exists(rows, match_id) == \E i \in 1..Len(rows) : Get(rows[i], "match_id") = match_id

\* an update that writes nothing
Update_nothing(rows, match) == rows

\* an update that deletes the row
Update_deletes(rows, match) ==
    SelectSeq(rows, LAMBDA row : Get(row, "match_id") # match.match_id)

\* update(match).eq("match_id", ...): every column of match is written to
\* every row with that match_id
Update(rows, match) ==
    [i \in 1..Len(rows) |->
         IF Get(rows[i], "match_id") = match.match_id
         THEN [k \in (DOMAIN rows[i]) \cup (DOMAIN match) |->
                   IF k \in DOMAIN match THEN match[k] ELSE rows[i][k]]
         ELSE rows[i]]

\* insert(match): a new row
Insert(rows, match) == Append(rows, match)

\* an upsert without the existence check
upsert_one_insert_only(rows, match, fail) ==
    IF ~Has(match, "match_id") \/ fail # "none"
    THEN [rows |-> rows, outcome |-> "error"]
    ELSE [rows |-> Append(rows, match), outcome |-> "inserted"]

\* an upsert whose update is not counted
upsert_one_update_uncounted(rows, match, fail) ==
    IF ~Has(match, "match_id") \/ fail = "check"
    THEN [rows |-> rows, outcome |-> "error"]
    ELSE IF Exists(rows, match.match_id)
    THEN (IF fail = "write" THEN [rows |-> rows, outcome |-> "error"]
          ELSE [rows |-> Update(rows, match), outcome |-> "uncounted"])
    ELSE (IF fail = "write" THEN [rows |-> rows, outcome |-> "error"]
          ELSE [rows |-> Insert(rows, match), outcome |-> "inserted"])

\* lines 35-53 for one match.  fail names the store call that raises for
\* this match, if one does: "check" the select, "write" the update or the
\* insert; a call that raises changes nothing.  match["match_id"] of a match
\* without that key raises inside the try as well.
upsert_one(rows, match, fail) ==
    IF ~Has(match, "match_id") \/ fail = "check"
    THEN [rows |-> rows, outcome |-> "error"]
    ELSE IF Exists(rows, match.match_id)
    THEN (IF fail = "write" THEN [rows |-> rows, outcome |-> "error"]
          ELSE [rows |-> Update(rows, match), outcome |-> "updated"])
    ELSE (IF fail = "write" THEN [rows |-> rows, outcome |-> "error"]
          ELSE [rows |-> Insert(rows, match), outcome |-> "inserted"])

\* a loop that the first failure ends
RECURSIVE upsert_all_abort_on_error(_, _, _, _)
upsert_all_abort_on_error(rows, matches, fails, log) ==
    IF matches = <<>> THEN [rows |-> rows, log |-> log]
    ELSE LET one == upsert_one(rows, Head(matches), Head(fails))
         IN  IF one.outcome = "error" THEN [rows |-> rows, log |-> Append(log, "error")]
             ELSE upsert_all_abort_on_error(one.rows, Tail(matches), Tail(fails),
                                            Append(log, one.outcome))

\* the loop of lines 34-53: the rows after it and, per match, which counter
\* it added to (the debug and error lines of the log)
RECURSIVE upsert_all(_, _, _, _)
upsert_all(rows, matches, fails, log) ==
    IF matches = <<>> THEN [rows |-> rows, log |-> log]
    ELSE LET one == upsert_one(rows, Head(matches), Head(fails))
         IN  upsert_all(one.rows, Tail(matches), Tail(fails), Append(log, one.outcome))

Count(log, outcome) == Cardinality({i \in 1..Len(log) : log[i] = outcome})

\* insert_matches on the table rows; an empty list returns at line 26
insert_matches(rows, matches, fails) ==
    LET done == upsert_all(rows, matches, fails, <<>>)
    IN  [ rows     |-> done.rows,
          log      |-> done.log,
          inserted |-> Count(done.log, "inserted"),
          updated  |-> Count(done.log, "updated"),
          errors   |-> Count(done.log, "error") ]

----------------------------------------------------------------------------
(* database.py: the CSV backup.  pandas and json are modelled by what they *)
(* do to the columns of a CanonicalMatch: the texts json.dumps and to_csv  *)
(* write, the csv quoting of a line, and the column types read_csv infers  *)
(* from the texts.  A price is held in hundredths.  A float that holds a   *)
(* whole number n is the int n (3.0 == 3 in Python); NaN is a value of its *)
(* own.                                                                    *)

NaN == <<"n", "a", "n">>

\* the keys of the records, in order: the columns of the DataFrame
columns ==
    <<"match_id", "date", "home_team", "away_team", "result_home", "result_away",
      "league", "season", "market", "odds_opening", "odds_closing", "xg">>
json_columns == {"odds_opening", "odds_closing", "xg"}
\* the columns that hold an int or None
int_columns == {"result_home", "result_away"}

\* the position of the first c in s at or after position from, 0 when
\* there is none
IndexOf(s, c, from) ==
    LET found == { i \in from..Len(s) : s[i] = c }
    IN  IF found = {} THEN 0 ELSE CHOOSE i \in found : \A j \in found : i <= j

\* repr of the float price: 1.25, 6.5, 12.0
float_repr(price) ==
    ToStr(price \div 100) \o <<".">>
        \o (IF price % 100 = 0 THEN <<"0">>
            ELSE IF price % 10 = 0 THEN ToStr((price % 100) \div 10)
            ELSE Pad(price % 100, 2))

\* float(text) for a decimal with at most two places, in hundredths
parse_float(text) ==
    LET dot == IndexOf(text, ".", 1)
        whole == IF dot = 0 THEN text ELSE SubSeq(text, 1, dot - 1)
        places == IF dot = 0 THEN <<>> ELSE SubSeq(text, dot + 1, Len(text))
    IN  100 * ToInt(whole)
        + (IF Len(places) = 0 THEN 0
           ELSE IF Len(places) = 1 THEN 10 * ToInt(places)
           ELSE ToInt(SubSeq(places, 1, 2)))

\* the members of json.dumps(odds), for the codes that odds holds
RECURSIVE json_members(_, _)
json_members(odds, codes) ==
    IF codes = <<>> THEN <<>>
    ELSE IF ~Has(odds, Head(codes)) THEN json_members(odds, Tail(codes))
    ELSE LET member == <<"\"", Head(codes), "\"", ":", " ">>
                          \o float_repr(odds[Head(codes)])
             rest == json_members(odds, Tail(codes))
         IN  IF rest = <<>> THEN member ELSE member \o <<",", " ">> \o rest

\* json.dumps of a dict from outcome codes to prices
json_dumps(odds) == <<"{">> \o json_members(odds, <<"1", "X", "2">>) \o <<"}">>

\* the dict of the members "k": v, ... of a JSON object whose keys are one
\* character long
RECURSIVE json_parse_members(_, _)
json_parse_members(text, odds) ==
    IF text = <<>> THEN odds
    ELSE LET key == text[2]
             comma == IndexOf(text, ",", 1)
             last == IF comma = 0 THEN Len(text) ELSE comma - 1
             value == parse_float(SubSeq(text, 6, last))
             rest == IF comma = 0 THEN <<>> ELSE SubSeq(text, comma + 2, Len(text))
         IN  json_parse_members(rest,
                 [c \in (DOMAIN odds) \cup {key} |-> IF c = key THEN value ELSE odds[c]])

\* json.loads of the text of such a dict
json_loads(text) == json_parse_members(SubSeq(text, 2, Len(text) - 1), <<>>)

\* csv.writer with minimal quoting: a cell that holds a comma or a quote is
\* put in quotes, its quotes doubled
csv_quote(cell) ==
    IF IndexOf(cell, ",", 1) = 0 /\ IndexOf(cell, "\"", 1) = 0 THEN cell
    ELSE <<"\"">> \o Replace(cell, "\"", <<"\"", "\"">>) \o <<"\"">>

RECURSIVE csv_line(_)
csv_line(cells) ==
    IF Len(cells) = 1 THEN csv_quote(cells[1])
    ELSE csv_quote(cells[1]) \o <<",">> \o csv_line(Tail(cells))

\* csv.reader on one line.  A comma separates two cells when the number
\* of quotes before it is even; a cell that starts with a quote loses the
\* quotes around it, and a doubled quote in it is one quote
csv_separators(line) ==
    { i \in 1..Len(line) :
        /\ line[i] = ","
        /\ Cardinality({ j \in 1..(i - 1) : line[j] = "\"" }) % 2 = 0 }

RECURSIVE csv_undouble(_)
csv_undouble(text) ==
    IF text = <<>> THEN <<>>
    ELSE IF Head(text) = "\"" THEN <<"\"">> \o csv_undouble(SubSeq(text, 3, Len(text)))
    ELSE <<Head(text)>> \o csv_undouble(Tail(text))

csv_unquote(cell) ==
    IF cell # <<>> /\ cell[1] = "\"" THEN csv_undouble(SubSeq(cell, 2, Len(cell) - 1))
    ELSE cell

RECURSIVE csv_split_from(_, _, _)
csv_split_from(line, from, separators) ==
    LET ahead == { i \in separators : i >= from }
        next == CHOOSE i \in ahead : \A j \in ahead : i <= j
    IN  IF ahead = {} THEN <<csv_unquote(SubSeq(line, from, Len(line)))>>
        ELSE <<csv_unquote(SubSeq(line, from, next - 1))>>
                 \o csv_split_from(line, next + 1, separators)

csv_split(line) == csv_split_from(line, 1, csv_separators(line))

\* pd.DataFrame(matches): a column of ints and None is a float column, the
\* None in it NaN
is_float_column(matches, col) ==
    /\ col \in int_columns
    /\ \E i \in 1..Len(matches) : Get(matches[i], col) = None
    /\ \E i \in 1..Len(matches) : Get(matches[i], col) # None

\* the text to_csv writes for the value of a column, after line 117 made
\* json.dumps of the dicts: nothing for None and NaN, 3.0 for the 3 of a
\* float column
to_csv_cell(matches, col, value) ==
    IF value = None THEN <<>>
    ELSE IF col \in json_columns THEN json_dumps(value[1])
    ELSE IF col \in int_columns
         THEN (IF is_float_column(matches, col) THEN ToStr(value[1]) \o <<".", "0">>
               ELSE ToStr(value[1]))
    ELSE value

\* lines 113-120: the lines of the file, the header first, a column name
\* written as one character; the DataFrame of an empty list has no columns
\* and the file no lines
save_to_csv(matches) ==
    IF matches = <<>> THEN <<>>
    ELSE <<csv_line([c \in 1..Len(columns) |-> <<columns[c]>>])>>
         \o [i \in 1..Len(matches) |->
                csv_line([c \in 1..Len(columns) |->
                             to_csv_cell(matches, columns[c], Get(matches[i], columns[c]))])]

\* the texts read_csv takes for an int and for a float
IsIntText(text) == text # <<>> /\ AllDigits(text)
IsFloatText(text) ==
    LET dot == IndexOf(text, ".", 1)
    IN  /\ dot > 1 /\ dot < Len(text)
        /\ AllDigits(SubSeq(text, 1, dot - 1))
        /\ AllDigits(SubSeq(text, dot + 1, Len(text)))

\* the value read_csv gives the cell of a column whose cells are texts: an
\* empty cell is NaN; a column of int texts is an int column, a column of
\* numbers and empty cells a float column (of whole numbers, for the
\* columns of a CanonicalMatch), every other column holds str
read_csv_cell(texts, text) ==
    IF text = <<>> THEN NaN
    ELSE IF \A i \in 1..Len(texts) : IsIntText(texts[i]) THEN Some(ToInt(text))
    ELSE IF \A i \in 1..Len(texts) :
               texts[i] = <<>> \/ IsIntText(texts[i]) \/ IsFloatText(texts[i])
         THEN Some(parse_float(text) \div 100)
    ELSE text

\* line 146: json.loads of what is not NaN
load_json_cell(value) == IF value = NaN THEN None ELSE Some(json_loads(value))

\* lines 140-149: the records of the file; a file without lines is an
\* EmptyDataError, answered with the empty list (lines 153-155)
load_from_csv(file) ==
    IF file = <<>> THEN <<>>
    ELSE LET header == csv_split(file[1])
             rows == [i \in 1..(Len(file) - 1) |-> csv_split(file[i + 1])]
             texts(c) == [i \in 1..Len(rows) |-> rows[i][c]]
             place(k) == CHOOSE c \in 1..Len(header) : header[c] = <<k>>
             keys == { k \in {columns[c] : c \in 1..Len(columns)} :
                          \E c \in 1..Len(header) : header[c] = <<k>> }
         IN  [i \in 1..Len(rows) |->
                [k \in keys |->
                    LET value == read_csv_cell(texts(place(k)), rows[i][place(k)])
                    IN  IF k \in json_columns THEN load_json_cell(value) ELSE value]]

----------------------------------------------------------------------------
(* etl_main.py *)

\* validate_match_data raises for a match of the list, and so does
\* transform_and_validate
transform_and_validate_raises(matches) ==
    \E i \in 1..Len(matches) : validate_match_data_raises(matches[i])

\* lines 81-94: the matches without a violation, in order
transform_and_validate(matches) ==
    SelectSeq(matches, LAMBDA match : validate_match_data(match) = <<>>)

\* a select without the odds_opening filter
get_matches_without_odds_unfiltered(rows, read_fails) ==
    IF read_fails THEN <<>> ELSE rows

\* lines 88-100 of database.py: the rows whose odds_opening is null; a
\* failed read is answered with the empty list
get_matches_without_odds(rows, read_fails) ==
    IF read_fails THEN <<>>
    ELSE SelectSeq(rows, LAMBDA row : Get(row, "odds_opening") = None)

\* update_odds_only has no try block: it raises when get_odds_for_matches
\* does
update_odds_only_raises(rows, read_fails) ==
    get_odds_for_matches_raises(get_matches_without_odds(rows, read_fails))

\* lines 189-192: the enriched rows whose odds_opening is now set
matches_with_new_odds(rows, read_fails, current_date, odds_source) ==
    SelectSeq(enrich_matches_with_odds(get_matches_without_odds(rows, read_fails),
                                       current_date, odds_source),
              LAMBDA match : Get(match, "odds_opening") # None)

\* update_odds_only when it does not raise: the rows after it and the
\* dictionary it returns
update_odds_only(rows, read_fails, current_date, odds_source, fails) ==
    LET with_new == matches_with_new_odds(rows, read_fails, current_date, odds_source)
        results == insert_matches(rows, with_new, fails)
    IN  IF with_new = <<>>
        THEN [rows |-> rows, results |-> [updated |-> 0, errors |-> 0]]
        ELSE [rows |-> results.rows,
              results |-> [inserted |-> results.inserted,
                           updated |-> results.updated,
                           errors |-> results.errors]]

----------------------------------------------------------------------------
(* The inputs the model draws from *)

\* team names as a source prints them: aliases of the mapping, canonical
\* names, names the mapping does not know, and names with a space or an
\* underscore at the place where another fixture has its separator
Man_City == <<"M","a","n"," ","C","i","t","y">>
Manchester_City == <<"M","a","n","c","h","e","s","t","e","r"," ","C","i","t","y">>
West_Ham == <<"W","e","s","t"," ","H","a","m">>
West_Ham_United == <<"W","e","s","t"," ","H","a","m"," ","U","n","i","t","e","d">>
Aston_Villa == <<"A","s","t","o","n"," ","V","i","l","l","a">>
Chelsea == <<"C","h","e","l","s","e","a">>
Aston == <<"A","s","t","o","n">>
Villa_Chelsea == <<"V","i","l","l","a"," ","C","h","e","l","s","e","a">>
Aston_underscore_Villa == <<"A","s","t","o","n","_","V","i","l","l","a">>

\* every string the mapping mentions, and the names above
TeamNames ==
    DOMAIN TEAM_MAPPINGS \cup {TEAM_MAPPINGS[k] : k \in DOMAIN TEAM_MAPPINGS}
    \cup {Aston_Villa, Chelsea, Aston, Villa_Chelsea, Aston_underscore_Villa}

\* kick-off times of the results source: two on 2024-05-19, one a week
\* earlier, one that is no date
UtcDates ==
    { <<"2","0","2","4","-","0","5","-","1","9","T","1","5",":","0","0",":","0","0","Z">>,
      <<"2","0","2","4","-","0","5","-","1","9","T","1","2",":","3","0",":","0","0","Z">>,
      <<"2","0","2","4","-","0","5","-","1","2","T","1","5",":","0","0",":","0","0","Z">>,
      <<"2","0","2","4","-","1","3","-","4","5","T","1","5",":","0","0",":","0","0","Z">> }
\* (home, away) as the results source names them; None is a JSON null
RawFixtures ==
    { <<Man_City, West_Ham>>, <<Manchester_City, West_Ham_United>>,
      <<West_Ham, Man_City>>,
      <<Aston_Villa, Chelsea>>, <<Aston, Villa_Chelsea>>,
      <<Aston_underscore_Villa, Chelsea>>,
      <<None, Chelsea>> }
\* score.fullTime: played, and not yet played
FullTimes ==
    { [home |-> Some(3), away |-> Some(1)], [home |-> None, away |-> None] }
\* a full-time score with the home goals alone
HomeGoalsOnly == [home |-> Some(2), away |-> None]
SeasonStart == <<"2","0","2","3","-","0","8","-","0","1">>
RawMatch(utcDate, home, away, fullTime) ==
    [ utcDate  |-> utcDate,
      homeTeam |-> [name |-> home],
      awayTeam |-> [name |-> away],
      season   |-> [startDate |-> SeasonStart],
      score    |-> [fullTime |-> fullTime] ]
\* every kick-off with every fixture, one fixture with every score, and one
\* match with half a score
RawMatches ==
    { RawMatch(d, f[1], f[2], [home |-> Some(3), away |-> Some(1)]) :
          d \in UtcDates, f \in RawFixtures }
    \cup { RawMatch(d, Man_City, West_Ham, ft) : d \in UtcDates, ft \in FullTimes }
    \cup { RawMatch(<<"2","0","2","4","-","0","5","-","1","9","T","1","5",":","0","0",":","0","0","Z">>,
                    Aston_Villa, Chelsea, HomeGoalsOnly) }
\* the season argument: the last season before the free tier and the
\* first one within it
Seasons == { <<"2","0","2","2">>, <<"2","0","2","3">> }

\* the longest answer of the results source
MaxRaw == 2
SeqsUpTo(S, n) == UNION { [1..k -> S] : k \in 0..n }

\* 2024-05-21, the day the pipeline starts on
StartDay == toordinal(Date(2024, 5, 21))

----------------------------------------------------------------------------------------------------------------------------------------
(* Every operation is called when no call is in progress (op = "idle"),   *)
(* runs to its return, and leaves its arguments and its result in arg and *)
(* ret until the caller takes them (Done).                                 *)

Init ==
    /\ store = <<>>
    /\ today = StartDay
    /\ op = "idle"
    /\ arg = <<>>
    /\ ret = <<>>
    /\ requests = <<>>
    /\ clock = 0
    /\ clients = [c \in {"football", "odds"} |-> [request_count |-> 0, last_request_time |-> 0]]
    /\ sent = [c \in {"football", "odds"} |-> <<>>]

Done ==
    /\ op # "idle"
    /\ op = "run_full_pipeline" => ret.returned
    /\ op' = "idle"
    /\ arg' = <<>>
    /\ ret' = <<>>
    /\ requests' = <<>>
    /\ UNCHANGED <<store, today>>
    /\ UNCHANGED transport

----------------------------------------------------------------------------
(* Normalisation: the calls of get_season_matches and of the two          *)
(* normalize_team_name                                                     *)

GetSeasonMatches ==
    /\ op = "idle"
    /\ \E season \in Seasons :
        \E raw_matches \in (IF season_is_restricted(season) THEN {<<>>}
                            ELSE SeqsUpTo(RawMatches, MaxRaw)) :
            /\ op' = "get_season_matches"
            /\ arg' = [season |-> season, raw_matches |-> raw_matches]
            /\ ret' = get_season_matches(season, raw_matches)
            /\ requests' = season_requests(season)
            /\ UNCHANGED <<store, today>>
    /\ UNCHANGED transport

FootballDataNormalizeTeamName ==
    /\ op = "idle"
    /\ \E team_name \in TeamNames :
           /\ op' = "FootballDataAPI.normalize_team_name"
           /\ arg' = team_name
           /\ ret' = FootballDataAPI_normalize_team_name(team_name)
           /\ UNCHANGED <<store, today, requests>>
    /\ UNCHANGED transport

OddsNormalizeTeamName ==
    /\ op = "idle"
    /\ \E team_name \in TeamNames :
           /\ op' = "OddsAPI.normalize_team_name"
           /\ arg' = team_name
           /\ ret' = OddsAPI_normalize_team_name(team_name)
           /\ UNCHANGED <<store, today, requests>>
    /\ UNCHANGED transport

NextNormalize ==
    \/ GetSeasonMatches
    \/ FootballDataNormalizeTeamName
    \/ OddsNormalizeTeamName
    \/ Done

SpecNormalize == Init /\ [][NextNormalize]_vars

----------------------------------------------------------------------------
(* The inputs of the odds join *)

Draw == <<"D","r","a","w">>
\* the skeletons handed to the join: what normalize_match_data makes of a
\* fixture on 2024-05-19, of the two fixtures whose names run together with
\* it, of the same fixture a week earlier and of one on 2024-05-20
Skeletons ==
    { normalize_match_data(RawMatch(f[1], f[2], f[3], [home |-> None, away |-> None])) :
        f \in { <<<<"2","0","2","4","-","0","5","-","1","9","T","1","5",":","0","0",":","0","0","Z">>, Man_City, West_Ham>>,
                <<<<"2","0","2","4","-","0","5","-","1","9","T","1","5",":","0","0",":","0","0","Z">>, Aston_Villa, Chelsea>>,
                <<<<"2","0","2","4","-","0","5","-","1","9","T","1","5",":","0","0",":","0","0","Z">>, Aston, Villa_Chelsea>>,
                <<<<"2","0","2","4","-","0","5","-","1","2","T","1","5",":","0","0",":","0","0","Z">>, Man_City, West_Ham>>,
                <<<<"2","0","2","4","-","0","5","-","2","0","T","1","9",":","0","0",":","0","0","Z">>, Chelsea, Aston_Villa>> } }

\* prices in hundredths
Bookmakers(home, away, p1, px, p2) ==
    << [ markets |-> << [ key |-> h2h,
                          outcomes |-> << [name |-> home, price |-> p1],
                                          [name |-> Draw, price |-> px],
                                          [name |-> away, price |-> p2] >> ] >> ] >>
OddsRecord(home, away, bookmakers) ==
    [home_team |-> home, away_team |-> away, bookmakers |-> bookmakers]
\* what the odds source can answer with: a priced record under the aliases
\* and one under the canonical names with other prices, a record without
\* bookmakers, one whose outcome has no price, and two other fixtures
OddsRecords ==
    { OddsRecord(Man_City, West_Ham, Bookmakers(Man_City, West_Ham, 125, 650, 1200)),
      OddsRecord(Manchester_City, West_Ham_United,
                 Bookmakers(Manchester_City, West_Ham_United, 130, 600, 1100)),
      OddsRecord(Man_City, West_Ham, <<>>),
      OddsRecord(Man_City, West_Ham,
                 << [markets |-> << [key |-> h2h,
                                     outcomes |-> << [name |-> Man_City] >>] >>] >>),
      OddsRecord(Aston_Villa, Chelsea, Bookmakers(Aston_Villa, Chelsea, 210, 340, 350)),
      OddsRecord(Chelsea, Aston_Villa, Bookmakers(Chelsea, Aston_Villa, 190, 360, 400)) }

\* the longest list of matches, the longest answer of the odds source, and
\* the days the clock moves on
MaxMatches == 2
MaxOdds == 2
MaxDays == 2

----------------------------------------------------------------------------
(* The odds join: the calls of enrich_matches_with_odds as the days pass *)

AdvanceDay ==
    /\ op = "idle"
    /\ today < StartDay + MaxDays
    /\ today' = today + 1
    /\ UNCHANGED <<store, op, arg, ret, requests>>
    /\ UNCHANGED transport

EnrichMatchesWithOdds ==
    /\ op = "idle"
    /\ \E matches \in SeqsUpTo(Skeletons, MaxMatches) :
        \E odds_source \in [dates_to_process(matches, today)
                                -> SeqsUpTo(OddsRecords, MaxOdds)] :
            /\ op' = "enrich_matches_with_odds"
            /\ arg' = [matches |-> matches, odds_source |-> odds_source]
            /\ ret' = IF get_odds_for_matches_raises(matches)
                      THEN [raised |-> TRUE]
                      ELSE [raised |-> FALSE,
                            matches |-> enrich_matches_with_odds(matches, today,
                                                                 odds_source),
                            inputs |-> enrich_inputs_after(matches, today,
                                                           odds_source)]
            /\ requests' = odds_requests(matches, today)
            /\ UNCHANGED <<store, today>>
    /\ UNCHANGED transport

NextEnrich == EnrichMatchesWithOdds \/ AdvanceDay \/ Done

SpecEnrich == Init /\ [][NextEnrich]_vars

----------------------------------------------------------------------------
(* The inputs of the store *)

\* validated CanonicalMatches: a played fixture without odds and the same
\* match with odds, and the two fixtures that share one match_id
PlayedMatch ==
    normalize_match_data(RawMatch(<<"2","0","2","4","-","0","5","-","1","9","T","1","5",":","0","0",":","0","0","Z">>,
                                  Man_City, West_Ham, [home |-> Some(3), away |-> Some(1)]))
PlayedMatchWithOdds ==
    enrich_one(PlayedMatch,
               [id \in {PlayedMatch.match_id} |->
                    extract_odds_data(OddsRecord(Man_City, West_Ham,
                                                 Bookmakers(Man_City, West_Ham, 125, 650, 1200)))])
VillaChelsea ==
    normalize_match_data(RawMatch(<<"2","0","2","4","-","0","5","-","1","9","T","1","5",":","0","0",":","0","0","Z">>,
                                  Aston_Villa, Chelsea, [home |-> None, away |-> None]))
AstonVillaChelsea ==
    normalize_match_data(RawMatch(<<"2","0","2","4","-","0","5","-","1","9","T","1","5",":","0","0",":","0","0","Z">>,
                                  Aston, Villa_Chelsea, [home |-> None, away |-> None]))
ValidMatches == {PlayedMatch, PlayedMatchWithOdds, VillaChelsea, AstonVillaChelsea}

\* which store call of a match raises
Failures == {"none", "check", "write"}
NoFailure(n) == [i \in 1..n |-> "none"]

\* the longest batch
MaxBatch == 2

----------------------------------------------------------------------------
(* The upsert: the calls of insert_matches by one pipeline instance *)

InsertMatches ==
    /\ op = "idle"
    /\ \E matches \in SeqsUpTo(ValidMatches, MaxBatch) :
        \E fails \in [1..Len(matches) -> Failures] :
            LET done == insert_matches(store, matches, fails)
            IN  /\ op' = "insert_matches"
                /\ arg' = [matches |-> matches, fails |-> fails, rows |-> store]
                /\ ret' = [inserted |-> done.inserted, updated |-> done.updated,
                           errors |-> done.errors, log |-> done.log]
                /\ store' = done.rows
                /\ UNCHANGED <<today, requests>>
    /\ UNCHANGED transport

NextUpsert == InsertMatches \/ Done

SpecUpsert == Init /\ [][NextUpsert]_vars

----------------------------------------------------------------------------
(* The inputs of the full pipeline *)

WithoutKey(d, k) == [j \in (DOMAIN d) \ {k} |-> d[j]]
\* what extract_season_data hands to validation.  Its matches come from
\* normalize_match_data and have every field; the candidates here also
\* cover a null home_team, an absent season, a null date, on which the
\* validator raises, and a negative result.
Candidates ==
    { PlayedMatch, VillaChelsea,
      SetItem(PlayedMatch, "home_team", None),
      WithoutKey(VillaChelsea, "season"),
      SetItem(PlayedMatch, "date", None),
      SetItem(VillaChelsea, "result_home", Some(0 - 1)) }
SeasonList == << <<"2","0","2","3">>, <<"2","0","2","4">> >>
SeasonAt(i) == SeasonList[((i - 1) % Len(SeasonList)) + 1]

\* the most matches of a season and the most seasons of a run
MaxCandidates == 2
MaxSeasons == 2

----------------------------------------------------------------------------
(* run_full_pipeline, season by season.  The CSV file of save_csv is not   *)
(* part of the store and is left out.                                      *)

\* lines 127-150 for one season: the rows after it and what it adds to the
\* totals.  An empty extraction continues at line 133, an exception of the
\* validator is caught at line 152; neither touches the store.
process_season(rows, matches, fails) ==
    IF matches = <<>> \/ transform_and_validate_raises(matches)
    THEN [rows |-> rows, processed |-> 0, inserted |-> 0, updated |-> 0, errors |-> 0]
    ELSE LET validated_matches == transform_and_validate(matches)
             load_results == insert_matches(rows, validated_matches, fails)
         IN  [rows |-> load_results.rows,
              processed |-> Len(validated_matches),
              inserted |-> load_results.inserted,
              updated |-> load_results.updated,
              errors |-> load_results.errors]

RunFullPipeline ==
    /\ op = "idle"
    /\ \E n \in 1..MaxSeasons :
        /\ op' = "run_full_pipeline"
        /\ arg' = [seasons |-> [i \in 1..n |-> SeasonAt(i)], position |-> 1,
                   matches |-> <<>>, rows |-> store]
        /\ ret' = [returned |-> FALSE, total_matches_processed |-> 0,
                   total_inserted |-> 0, total_updated |-> 0, total_errors |-> 0]
        /\ UNCHANGED <<store, today, requests>>
    /\ UNCHANGED transport

ProcessSeason ==
    /\ op = "run_full_pipeline"
    /\ ~ret.returned
    /\ arg.position <= Len(arg.seasons)
    /\ \E matches \in SeqsUpTo(Candidates, MaxCandidates) :
        \E fails \in (IF matches = <<>> \/ transform_and_validate_raises(matches)
                      THEN {<<>>}
                      ELSE [1..Len(transform_and_validate(matches)) -> Failures]) :
            LET season == process_season(store, matches, fails)
            IN  /\ store' = season.rows
                /\ arg' = [arg EXCEPT !.position = @ + 1, !.matches = matches,
                                      !.rows = store]
                /\ ret' = [ret EXCEPT
                             !.total_matches_processed = @ + season.processed,
                             !.total_inserted = @ + season.inserted,
                             !.total_updated = @ + season.updated,
                             !.total_errors = @ + season.errors]
                /\ UNCHANGED <<op, today, requests>>
    /\ UNCHANGED transport

\* lines 156-168: the summary
RunFullPipelineReturn ==
    /\ op = "run_full_pipeline"
    /\ ~ret.returned
    /\ arg.position > Len(arg.seasons)
    /\ ret' = [returned |-> TRUE,
               seasons_processed |-> Len(arg.seasons),
               total_matches_processed |-> ret.total_matches_processed,
               total_inserted |-> ret.total_inserted,
               total_updated |-> ret.total_updated,
               total_errors |-> ret.total_errors]
    /\ UNCHANGED <<store, today, op, arg, requests>>
    /\ UNCHANGED transport

NextLoad == RunFullPipeline \/ ProcessSeason \/ RunFullPipelineReturn \/ Done

SpecLoad == Init /\ [][NextLoad]_vars

----------------------------------------------------------------------------
(* The validator: the calls of validate_match_data and of                  *)
(* transform_and_validate                                                  *)

\* the most required fields a record lacks
MaxMissing == 2
RequiredFieldSet == { required_fields[i] : i \in 1..Len(required_fields) }
\* match without the fields of absent and with None in the fields of null
Lacking(match, absent, null) ==
    [k \in (DOMAIN match) \ absent |-> IF k \in null THEN None ELSE match[k]]
\* validated matches with up to MaxMissing required fields absent or null
ValidatorInputs ==
    { Lacking(match, pair[1], pair[2]) :
        match \in {PlayedMatch, VillaChelsea},
        pair \in { p \in (SUBSET RequiredFieldSet) \X (SUBSET RequiredFieldSet) :
                       /\ p[1] \cap p[2] = {}
                       /\ Cardinality(p[1] \cup p[2]) <= MaxMissing } }

ValidateMatchData ==
    /\ op = "idle"
    /\ \E match \in ValidatorInputs :
        /\ op' = "validate_match_data"
        /\ arg' = match
        /\ ret' = IF validate_match_data_raises(match) THEN [raised |-> TRUE]
                  ELSE [raised |-> FALSE, errors |-> validate_match_data(match)]
        /\ UNCHANGED <<store, today, requests>>
    /\ UNCHANGED transport

TransformAndValidate ==
    /\ op = "idle"
    /\ \E matches \in SeqsUpTo(Candidates, MaxCandidates) :
        /\ op' = "transform_and_validate"
        /\ arg' = matches
        /\ ret' = IF transform_and_validate_raises(matches) THEN [raised |-> TRUE]
                  ELSE [raised |-> FALSE, matches |-> transform_and_validate(matches)]
        /\ UNCHANGED <<store, today, requests>>
    /\ UNCHANGED transport

NextValidate == ValidateMatchData \/ TransformAndValidate \/ Done

SpecValidate == Init /\ [][NextValidate]_vars

----------------------------------------------------------------------------
(* The price extraction: the calls of extract_odds_data *)

\* the outcomes of an h2h market of the fixture Man City v West Ham: named
\* as the record names the teams, as the mapping names the home team, or
\* Draw, at one of two prices
OutcomeNames == {Man_City, West_Ham, Draw, Manchester_City}
OutcomePrices == {125, 650}
Outcomes == { [name |-> n, price |-> p] : n \in OutcomeNames, p \in OutcomePrices }
\* the most outcomes of a market
MaxOutcomes == 3
ExtractInputs ==
    { OddsRecord(Man_City, West_Ham,
                 << [markets |-> << [key |-> h2h, outcomes |-> outcomes] >>] >>) :
        outcomes \in SeqsUpTo(Outcomes, MaxOutcomes) }
    \cup OddsRecords

ExtractOddsData ==
    /\ op = "idle"
    /\ \E odds_match \in ExtractInputs :
        /\ op' = "extract_odds_data"
        /\ arg' = odds_match
        /\ ret' = IF extract_odds_data_raises(odds_match) THEN [raised |-> TRUE]
                  ELSE [raised |-> FALSE, odds |-> extract_odds_data(odds_match)]
        /\ UNCHANGED <<store, today, requests>>
    /\ UNCHANGED transport

NextExtract == ExtractOddsData \/ Done

SpecExtract == Init /\ [][NextExtract]_vars

----------------------------------------------------------------------------
(* The pipeline on one store: direct calls of insert_matches, runs of      *)
(* update_odds_only and of run_full_pipeline, as the days pass             *)

\* insert_matches validates nothing: what it is handed here is a match
\* without and with odds, a second match, and a record whose date is null
NoDateMatch == SetItem(VillaChelsea, "date", None)
PipelineMatches == {PlayedMatch, PlayedMatchWithOdds, VillaChelsea, NoDateMatch}
\* what the odds source answers with: a priced record, one without
\* bookmakers and one whose outcome has no price
PipelineOdds ==
    { OddsRecord(Man_City, West_Ham, Bookmakers(Man_City, West_Ham, 125, 650, 1200)),
      OddsRecord(Man_City, West_Ham, <<>>),
      OddsRecord(Aston_Villa, Chelsea,
                 << [markets |-> << [key |-> h2h,
                                     outcomes |-> << [name |-> Aston_Villa] >>] >>] >>) }
\* what extract_season_data hands to validation
PipelineCandidates == {PlayedMatch, VillaChelsea, SetItem(PlayedMatch, "date", None)}

PipelineInsertMatches ==
    /\ op = "idle"
    /\ \E matches \in SeqsUpTo(PipelineMatches, MaxBatch) :
        \E fails \in [1..Len(matches) -> Failures] :
            LET done == insert_matches(store, matches, fails)
            IN  /\ op' = "insert_matches"
                /\ arg' = [matches |-> matches, fails |-> fails, rows |-> store]
                /\ ret' = [inserted |-> done.inserted, updated |-> done.updated,
                           errors |-> done.errors, log |-> done.log]
                /\ store' = done.rows
                /\ UNCHANGED <<today, requests>>
    /\ UNCHANGED transport

UpdateOddsOnly ==
    /\ op = "idle"
    /\ op' = "update_odds_only"
    /\ UNCHANGED today
    /\ \E read_fails \in BOOLEAN :
        IF update_odds_only_raises(store, read_fails)
        THEN /\ arg' = [read_fails |-> read_fails, rows |-> store]
             /\ ret' = [raised |-> TRUE]
             /\ requests' = <<>>
             /\ UNCHANGED store
        ELSE LET candidates == get_matches_without_odds(store, read_fails)
             IN  \E odds_source \in [dates_to_process(candidates, today)
                                         -> SeqsUpTo(PipelineOdds, MaxOdds)] :
                   \E fails \in [1..Len(matches_with_new_odds(store, read_fails, today,
                                                              odds_source))
                                    -> Failures] :
                     LET done == update_odds_only(store, read_fails, today,
                                                  odds_source, fails)
                     IN  /\ arg' = [read_fails |-> read_fails, rows |-> store,
                                    odds_source |-> odds_source, fails |-> fails]
                         /\ ret' = [raised |-> FALSE, results |-> done.results]
                         /\ requests' = odds_requests(candidates, today)
                         /\ store' = done.rows
    /\ UNCHANGED transport

PipelineProcessSeason ==
    /\ op = "run_full_pipeline"
    /\ ~ret.returned
    /\ arg.position <= Len(arg.seasons)
    /\ \E matches \in SeqsUpTo(PipelineCandidates, MaxCandidates) :
        \E fails \in (IF matches = <<>> \/ transform_and_validate_raises(matches)
                      THEN {<<>>}
                      ELSE [1..Len(transform_and_validate(matches)) -> Failures]) :
            LET season == process_season(store, matches, fails)
            IN  /\ store' = season.rows
                /\ arg' = [arg EXCEPT !.position = @ + 1, !.matches = matches,
                                      !.rows = store]
                /\ ret' = [ret EXCEPT
                             !.total_matches_processed = @ + season.processed,
                             !.total_inserted = @ + season.inserted,
                             !.total_updated = @ + season.updated,
                             !.total_errors = @ + season.errors]
                /\ UNCHANGED <<op, today, requests>>
    /\ UNCHANGED transport

NextPipeline ==
    \/ PipelineInsertMatches
    \/ UpdateOddsOnly
    \/ RunFullPipeline
    \/ PipelineProcessSeason
    \/ RunFullPipelineReturn
    \/ AdvanceDay
    \/ Done

SpecPipeline == Init /\ [][NextPipeline]_vars

----------------------------------------------------------------------------
(* Claims about normalisation, checked under SpecNormalize *)

\* the raw records of the last get_season_matches call that normalise: the
\* k-th of them is the source of ret[k]
KeptRaw ==
    SelectSeq(arg.raw_matches, LAMBDA r : ~normalize_match_data_raises(r))
\* the canonical name of a team, read off the mapping table
Canonical(name) == IF name \in DOMAIN TEAM_MAPPINGS THEN TEAM_MAPPINGS[name] ELSE name
\* the calendar date a kick-off time starts with
DatePart(utcDate) == SubSeq(utcDate, 1, 10)
\* two raw records of the same fixture: same date, same teams under any alias
SameFixture(r, s) ==
    /\ DatePart(r.utcDate) = DatePart(s.utcDate)
    /\ Canonical(r.homeTeam.name) = Canonical(s.homeTeam.name)
    /\ Canonical(r.awayTeam.name) = Canonical(s.awayTeam.name)
ExampleMatchId == <<"E","P","L","_","2","0","2","4","_","0","5","_","1","9","_","M","a","n","c","h","e","s","t","e","r","_","C","i","t","y","_","W","e","s","t","_","H","a","m","_","U","n","i","t","e","d">>

\* C8: every record normalize_match_data produces has match_id = "EPL_" +
\* its date as YYYY_MM_DD + "_" + its home name with underscores for spaces +
\* "_" + its away name likewise, where date and names are those of the raw
\* record after normalisation; two raw records of the same date and teams
\* (under any alias) get the same match_id; and Man City v West Ham on
\* 2024-05-19 gets EPL_2024_05_19_Manchester_City_West_Ham_United.
C8_MatchIdFormula ==
    op = "get_season_matches" /\ ~season_is_restricted(arg.season) =>
        LET kept == KeptRaw
        IN  /\ Len(ret) = Len(kept)
            /\ \A k \in 1..Len(ret) :
                /\ ret[k].date = DatePart(kept[k].utcDate)
                /\ ret[k].home_team = Canonical(kept[k].homeTeam.name)
                /\ ret[k].away_team = Canonical(kept[k].awayTeam.name)
                /\ ret[k].match_id =
                       <<"E", "P", "L", "_">>
                       \o Replace(ret[k].date, "-", <<"_">>) \o <<"_">>
                       \o Replace(ret[k].home_team, " ", <<"_">>) \o <<"_">>
                       \o Replace(ret[k].away_team, " ", <<"_">>)
                /\ (/\ DatePart(kept[k].utcDate) = <<"2","0","2","4","-","0","5","-","1","9">>
                    /\ kept[k].homeTeam.name = Man_City
                    /\ kept[k].awayTeam.name = West_Ham)
                   => ret[k].match_id = ExampleMatchId
            /\ \A j, k \in 1..Len(ret) :
                   SameFixture(kept[j], kept[k]) => ret[j].match_id = ret[k].match_id

\* C8's case: one answer holds the same fixture twice, once under the
\* aliases and once under the canonical names, at different kick-off times
C8_Witness ==
    /\ op = "get_season_matches"
    /\ Len(ret) = 2
    /\ arg.raw_matches[1].homeTeam.name = Man_City
    /\ arg.raw_matches[2].homeTeam.name = Manchester_City
    /\ arg.raw_matches[1].utcDate # arg.raw_matches[2].utcDate
    /\ ret[1].match_id = ExampleMatchId
    /\ ret[2].match_id = ExampleMatchId

\* C9: two records normalize_match_data produces that differ in date, in
\* home_team or in away_team never have the same match_id.
C9_MatchIdUnique ==
    op = "get_season_matches" =>
        \A j, k \in 1..Len(ret) :
            <<ret[j].date, ret[j].home_team, ret[j].away_team>>
                # <<ret[k].date, ret[k].home_team, ret[k].away_team>>
            => ret[j].match_id # ret[k].match_id

\* C10: normalising a normalised name changes nothing, in both clients, and a
\* name the mapping does not hold is returned as it came.
C10_NormalizeIdempotent ==
    /\ op = "FootballDataAPI.normalize_team_name" =>
           /\ FootballDataAPI_normalize_team_name(ret) = ret
           /\ arg \notin DOMAIN TEAM_MAPPINGS => ret = arg
    /\ op = "OddsAPI.normalize_team_name" =>
           /\ OddsAPI_normalize_team_name(ret) = ret
           /\ arg \notin DOMAIN TEAM_MAPPINGS => ret = arg

\* C10's case: an alias was rewritten to its canonical name
C10_Witness ==
    /\ op = "OddsAPI.normalize_team_name"
    /\ arg = Man_City
    /\ ret = Manchester_City

\* C13: every record normalize_match_data produces has result_home and
\* result_away both null or both non-null.
C13_ResultsPaired ==
    op = "get_season_matches" =>
        \A i \in 1..Len(ret) :
            (ret[i].result_home = None) <=> (ret[i].result_away = None)

\* C17: get_season_matches returns, in input order, the normalised form of
\* exactly the raw records that normalise without an error; a record that
\* does not is skipped alone.
C17_SkipsAlone ==
    (op = "get_season_matches" /\ requests # <<>>) =>
        LET kept == SelectSeq(arg.raw_matches,
                              LAMBDA match : ~normalize_match_data_raises(match))
        IN  /\ Len(ret) = Len(kept)
            /\ \A i \in 1..Len(kept) : ret[i] = normalize_match_data(kept[i])

\* a record without a home team name in front of a record that normalises
C17_Witness ==
    /\ op = "get_season_matches"
    /\ Len(arg.raw_matches) = 2
    /\ arg.raw_matches[1].homeTeam.name = None
    /\ arg.raw_matches[2].homeTeam.name = Man_City
    /\ Len(ret) = 1
    /\ ret[1].home_team = Manchester_City

\* C18: for a season whose year precedes the first season of the free tier
\* get_season_matches returns an empty list and asks the results source
\* nothing.
C18_RestrictedSeasonSkipped ==
    (op = "get_season_matches" /\ ToInt(arg.season) < 2023) =>
        ret = <<>> /\ requests = <<>>

\* season 2022 was asked for
C18_Witness ==
    /\ op = "get_season_matches"
    /\ arg.season = <<"2","0","2","2">>
    /\ ret = <<>>
    /\ requests = <<>>

----------------------------------------------------------------------------
(* Claims about the odds join, checked under SpecEnrich *)

\* what the odds source answered for the date of a match of the last call
\* (<<>> when it was not asked)
AnswerFor(match) ==
    IF match.date \in DOMAIN arg.odds_source THEN arg.odds_source[match.date] ELSE <<>>
\* an odds record whose normalised home and away names are the match's
Matches(odds_match, match) ==
    /\ Canonical(odds_match.home_team) = match.home_team
    /\ Canonical(odds_match.away_team) = match.away_team
\* the places in the answer for match's date of the records that belong to
\* a match of the call with match's match_id
PlacesFor(match) ==
    { k \in 1..Len(AnswerFor(match)) :
          \E j \in 1..Len(arg.matches) :
              /\ arg.matches[j].match_id = match.match_id
              /\ arg.matches[j].date = match.date
              /\ Matches(AnswerFor(match)[k], arg.matches[j]) }
Last(places) == CHOOSE k \in places : \A j \in places : j <= k
\* every record of the answer that belongs to a match of the call extracts
\* without an exception
AnswerExtracts(match) ==
    \A k \in 1..Len(AnswerFor(match)) :
        first_match_for(AnswerFor(match)[k], arg.matches, match.date) # 0
            => ~extract_odds_data_raises(AnswerFor(match)[k])

C6_NonInterference ==
    op = "enrich_matches_with_odds" =>
        /\ ~ret.raised
        /\ \A i \in 1..Len(arg.matches) :
               (\A k \in 1..Len(AnswerFor(arg.matches[i])) :
                    ~Matches(AnswerFor(arg.matches[i])[k], arg.matches[i]))
               => /\ ret.matches[i].odds_opening = None
                  /\ ret.matches[i] = arg.matches[i]

\* C7: no odds request is issued for a date more than
\* ODDS_API_HISTORICAL_LIMIT_DAYS days before the current date, and every
\* skeleton with such a date comes back with odds_opening null.
C7_OutOfWindow ==
    op = "enrich_matches_with_odds" =>
        /\ \A k \in 1..Len(requests) :
               today - toordinal(fromisoformat_date(requests[k]))
                   <= ODDS_API_HISTORICAL_LIMIT_DAYS
        /\ \A i \in 1..Len(arg.matches) :
               today - toordinal(fromisoformat_date(arg.matches[i].date))
                   > ODDS_API_HISTORICAL_LIMIT_DAYS
               => ret.matches[i].odds_opening = None

\* C7's case: a match four days old, just outside the limit, asked for
\* together with a younger one for which odds were fetched and merged
C7_Witness ==
    /\ op = "enrich_matches_with_odds"
    /\ Len(arg.matches) = 2
    /\ today - toordinal(fromisoformat_date(arg.matches[1].date))
           = ODDS_API_HISTORICAL_LIMIT_DAYS + 1
    /\ ret.matches[1].odds_opening = None
    /\ Len(requests) = 1
    /\ ret.matches[2].odds_opening # None

\* C15: when the answer for one date holds two or more records whose
\* normalised names are a skeleton's, the skeleton's odds are those of the
\* first such record.
C15_FirstMatchWins ==
    (op = "enrich_matches_with_odds" /\ ~ret.raised) =>
        \A i \in 1..Len(arg.matches) :
            LET match == arg.matches[i]
                answer == AnswerFor(match)
                mine == { k \in 1..Len(answer) : Matches(answer[k], match) }
            IN  /\ Cardinality(mine) >= 2
                /\ AnswerExtracts(match)
                /\ \A j \in 1..Len(arg.matches) :
                       arg.matches[j].match_id = match.match_id
                           => arg.matches[j] = match
                => LET first == CHOOSE k \in mine : \A j \in mine : k <= j
                   IN  ret.matches[i].odds_opening
                           = extract_odds_data(answer[first]).opening

\* C16: one call makes exactly one get_historical_odds call for every
\* distinct date of a skeleton within the limit, and so no more calls than
\* there are distinct match dates.
C16_OneFetchPerDate ==
    op = "enrich_matches_with_odds" =>
        LET within == { arg.matches[i].date :
                          i \in { j \in 1..Len(arg.matches) :
                                     today - toordinal(fromisoformat_date(arg.matches[j].date))
                                         <= ODDS_API_HISTORICAL_LIMIT_DAYS } }
        IN  /\ { requests[k] : k \in 1..Len(requests) } = within
            /\ Len(requests) = Cardinality(within)
            /\ Len(requests)
                   <= Cardinality({ arg.matches[i].date : i \in 1..Len(arg.matches) })

\* two skeletons of one date within the limit, fetched with one request
C16_Witness ==
    /\ op = "enrich_matches_with_odds"
    /\ Len(arg.matches) = 2
    /\ arg.matches[1] # arg.matches[2]
    /\ arg.matches[1].date = arg.matches[2].date
    /\ requests = <<arg.matches[1].date>>

----------------------------------------------------------------------------
(* Claims about the upsert, checked under SpecUpsert *)

BatchPositions == 1..Len(arg.matches)
\* the rows when insert_matches reaches match i of the batch
RowsBefore(i) ==
    upsert_all(arg.rows, SubSeq(arg.matches, 1, i - 1), SubSeq(arg.fails, 1, i - 1), <<>>).rows
\* the call in progress with the failure of match i taken away
WithoutFailure(i) ==
    insert_matches(arg.rows, arg.matches, [arg.fails EXCEPT ![i] = "none"])
OtherRows(rows, match_id) == SelectSeq(rows, LAMBDA row : row.match_id # match_id)
Counts(inserted, updated, errors) ==
    ret.inserted = inserted /\ ret.updated = updated /\ ret.errors = errors

\* C1: after any sequence of insert_matches batches of one pipeline
\* instance, batches with a repeated match_id and repeated batches included,
\* the store holds at most one row for every match_id.
C1_OneRowPerMatchId ==
    \A i, j \in 1..Len(store) :
        store[i].match_id = store[j].match_id => i = j

\* a batch with the same match twice, run on a store that already holds it
C1_Witness ==
    /\ op = "insert_matches"
    /\ arg.rows = <<PlayedMatch>>
    /\ arg.matches = <<PlayedMatch, PlayedMatch>>
    /\ arg.fails = NoFailure(2)
    /\ store = <<PlayedMatch>>

\* C2 as stated: a match whose store call fails counts as an error, and
\* every later match of the batch is processed as it is without the failure.
C2_FailureIsolation ==
    op = "insert_matches" =>
        \A i \in BatchPositions :
            arg.fails[i] # "none" =>
                /\ ret.log[i] = "error"
                /\ \A j \in BatchPositions :
                       j > i => ret.log[j] = WithoutFailure(i).log[j]

\* C2: a match whose store call fails adds one to errors and nothing else,
\* every match of the batch is still processed, and the later matches with
\* another match_id, and the rows of every other match_id, are as they are
\* without the failure.
C2_FailureIsolated ==
    op = "insert_matches" =>
        /\ Len(ret.log) = Len(arg.matches)
        /\ Counts(Count(ret.log, "inserted"), Count(ret.log, "updated"),
                  Count(ret.log, "error"))
        /\ ret.inserted + ret.updated + ret.errors = Len(arg.matches)
        /\ (\A i \in BatchPositions : arg.fails[i] # "none") => store = arg.rows
        /\ \A i \in BatchPositions :
               arg.fails[i] # "none" =>
                   LET without == WithoutFailure(i)
                       match_id == arg.matches[i].match_id
                   IN  /\ ret.log[i] = "error"
                       /\ \A j \in BatchPositions :
                              (j > i /\ arg.matches[j].match_id # match_id)
                                  => ret.log[j] = without.log[j]
                       /\ OtherRows(store, match_id) = OtherRows(without.rows, match_id)

\* the write of the first match fails and the second match is inserted
C2_Witness ==
    /\ op = "insert_matches"
    /\ arg.rows = <<>>
    /\ arg.matches = <<PlayedMatch, VillaChelsea>>
    /\ arg.fails = <<"write", "none">>
    /\ Counts(1, 0, 1)
    /\ store = <<VillaChelsea>>

\* C3: insert_matches takes the matches in batch order; a match whose store
\* calls succeed is appended and counted as inserted exactly when no row has
\* its match_id at that moment, and overwrites the row and is counted as
\* updated exactly when one has; one match upserted twice without failures
\* returns 1/0/0 and then 0/1/0.
C3_UpsertRule ==
    op = "insert_matches" =>
        /\ Len(ret.log) = Len(arg.matches)
        /\ RowsBefore(Len(arg.matches) + 1) = store
        /\ \A i \in BatchPositions :
               arg.fails[i] = "none" =>
                   LET before == RowsBefore(i)
                       after == RowsBefore(i + 1)
                       match == arg.matches[i]
                   IN  IF \A k \in 1..Len(before) : before[k].match_id # match.match_id
                       THEN /\ ret.log[i] = "inserted"
                            /\ after = Append(before, match)
                       ELSE /\ ret.log[i] = "updated"
                            /\ Len(after) = Len(before)
                            /\ \A k \in 1..Len(before) :
                                   after[k] = IF before[k].match_id = match.match_id
                                              THEN match ELSE before[k]
        /\ Counts(Count(ret.log, "inserted"), Count(ret.log, "updated"),
                  Count(ret.log, "error"))
        /\ ( /\ Len(arg.matches) = 1
             /\ arg.fails = NoFailure(1)
             /\ ~Exists(arg.rows, arg.matches[1].match_id) )
           => /\ Counts(1, 0, 0)
              /\ LET second == insert_matches(store, arg.matches, NoFailure(1))
                 IN  /\ second.inserted = 0
                     /\ second.updated = 1
                     /\ second.errors = 0
                     /\ second.rows = store

\* the second run of one match, which now carries odds
C3_Witness ==
    /\ op = "insert_matches"
    /\ arg.rows = <<PlayedMatch>>
    /\ arg.matches = <<PlayedMatchWithOdds>>
    /\ arg.fails = NoFailure(1)
    /\ Counts(0, 1, 0)
    /\ store = <<PlayedMatchWithOdds>>

----------------------------------------------------------------------------
(* Claims about the full pipeline, checked under SpecLoad *)

Complete(match) ==
    \A i \in 1..Len(required_fields) :
        Has(match, required_fields[i]) /\ match[required_fields[i]] # None

\* C4: every row run_full_pipeline writes has match_id, date, home_team,
\* away_team and season present and non-null: each row of the store was
\* there before the season or is, whole, a candidate that has them all.
C4_RequiredFieldsPersisted ==
    /\ \A i \in 1..Len(store) : Complete(store[i])
    /\ (op = "run_full_pipeline" /\ arg.position > 1) =>
           \A i \in 1..Len(store) :
               \/ \E k \in 1..Len(arg.rows) : arg.rows[k] = store[i]
               \/ \E j \in 1..Len(arg.matches) :
                      arg.matches[j] = store[i] /\ Complete(arg.matches[j])

\* a season with a candidate without home_team and a complete one
C4_Witness ==
    /\ op = "run_full_pipeline"
    /\ arg.rows = <<>>
    /\ arg.matches = <<SetItem(PlayedMatch, "home_team", None), VillaChelsea>>
    /\ store = <<VillaChelsea>>

----------------------------------------------------------------------------
(* Claims about the validator, checked under SpecValidate *)

\* the required fields that are absent from match or None in it
MissingFields(match) ==
    { f \in RequiredFieldSet : ~Has(match, f) \/ match[f] = None }
InSeq(x, seq) == \E i \in 1..Len(seq) : seq[i] = x

\* C11: validate_match_data returns a list with one reason for every
\* required field that is absent or null, date included, so at least two
\* reasons for a record that lacks two of them.
C11_ValidatorComplete ==
    op = "validate_match_data" =>
        /\ ~ret.raised
        /\ \A f \in MissingFields(arg) : InSeq(<<"Missing required field", f>>, ret.errors)
        /\ Len(ret.errors) >= Cardinality(MissingFields(arg))

\* a match with every required field, a date that parses and no negative
\* result
NoViolation(match) ==
    /\ MissingFields(match) = {}
    /\ fromisoformat_ok(match.date)
    /\ \A f \in {"result_home", "result_away"} :
           Get(match, f) = None \/ match[f][1] >= 0

\* C12: transform_and_validate returns exactly the subsequence of its input
\* without a violation, whatever the other records of the batch are.
C12_DiscardsAlone ==
    op = "transform_and_validate" =>
        /\ ~ret.raised
        /\ ret.matches = SelectSeq(arg, NoViolation)

----------------------------------------------------------------------------
(* Claims about the price extraction, checked under SpecExtract *)

OutcomeCodes == {"1", "X", "2"}

\* C14: every odds_opening and odds_closing that extract_odds_data produces
\* is null or a mapping with all three outcome codes.
C14_OddsNeverPartial ==
    (op = "extract_odds_data" /\ ~ret.raised) =>
        \A f \in {"opening", "closing"} :
            ret.odds[f] = None \/ DOMAIN ret.odds[f][1] = OutcomeCodes

----------------------------------------------------------------------------
(* Claims about the pipeline on one store, checked under SpecPipeline *)

Totals(r) ==
    <<r.total_matches_processed, r.total_inserted, r.total_updated, r.total_errors>>
\* a step of run_full_pipeline in which the work on a season raised
SeasonFails ==
    /\ op = "run_full_pipeline"
    /\ op' = "run_full_pipeline"
    /\ arg'.position = arg.position + 1
    /\ transform_and_validate_raises(arg'.matches)

\* C19: run_full_pipeline returns its summary for every list of seasons, a
\* season that fails keeps the totals of the seasons before it and the run
\* goes on to the next season, and update_odds_only returns its counts
\* whatever record or date fails.
C19_AlwaysSummary ==
    /\ [](op = "update_odds_only" =>
             ~ret.raised /\ {"updated", "errors"} \subseteq DOMAIN ret.results)
    /\ []((op = "run_full_pipeline" /\ ret.returned) =>
             /\ arg.position = Len(arg.seasons) + 1
             /\ ret.seasons_processed = Len(arg.seasons))
    /\ [][SeasonFails => Totals(ret') = Totals(ret) /\ store' = store]_vars

RowIds(rows) == { Get(rows[i], "match_id") : i \in 1..Len(rows) }

\* C20: no step of run_full_pipeline, update_odds_only or insert_matches
\* removes a row: the store never gets shorter and the set of match_ids in
\* it never loses a member.
C20_StoreNeverShrinks ==
    [][Len(store') >= Len(store) /\ RowIds(store) \subseteq RowIds(store')]_vars

\* update_odds_only wrote the odds of one of two stored rows
C20_Witness ==
    /\ op = "update_odds_only"
    /\ Len(arg.rows) = 2
    /\ ~ret.raised
    /\ "inserted" \in DOMAIN ret.results
    /\ ret.results.updated = 1
    /\ Len(store) = 2
    /\ store # arg.rows

\* the rows update_odds_only hands to insert_matches
WrittenBack ==
    matches_with_new_odds(arg.rows, arg.read_fails, today, arg.odds_source)
\* row and match differ at most in the two odds fields
SameButOdds(row, match) ==
    /\ DOMAIN match = DOMAIN row \cup {"odds_opening", "odds_closing"}
    /\ \A k \in DOMAIN row \ {"odds_opening", "odds_closing"} : match[k] = row[k]

\* C21: update_odds_only hands to the upsert only enriched copies of stored
\* rows whose odds_opening was null and is set now; a row that had odds, and
\* a row without odds for which none were obtained, is left as it was, and
\* no row is added
C21_OnlyNewOddsWritten ==
    (op = "update_odds_only" /\ ~ret.raised) =>
        /\ \A k \in 1..Len(WrittenBack) :
              /\ Get(WrittenBack[k], "odds_opening") # None
              /\ \E i \in 1..Len(arg.rows) :
                    /\ Get(arg.rows[i], "odds_opening") = None
                    /\ SameButOdds(arg.rows[i], WrittenBack[k])
        /\ Len(store) = Len(arg.rows)
        /\ \A i \in 1..Len(arg.rows) :
              (\/ Get(arg.rows[i], "odds_opening") # None
               \/ Get(store[i], "odds_opening") = None)
                  => /\ store[i] = arg.rows[i]
                     /\ (Get(arg.rows[i], "odds_opening") # None
                           => \A k \in 1..Len(WrittenBack) :
                                 WrittenBack[k].match_id # arg.rows[i].match_id)

\* a run over a store with a row that has odds and a row without: the second
\* got its odds and the first stayed
C21_Witness ==
    /\ op = "update_odds_only" /\ ~ret.raised
    /\ Len(WrittenBack) = 1
    /\ \E i, j \in 1..Len(arg.rows) :
          /\ Get(arg.rows[i], "odds_opening") = None
          /\ Get(store[i], "odds_opening") # None
          /\ Get(arg.rows[j], "odds_opening") = None
          /\ store[j] = arg.rows[j]

----------------------------------------------------------------------------
(* The CSV backup: a list of matches is saved, and the file is loaded *)

\* an unplayed fixture with odds whose prices have two places and none
VillaChelseaWithOdds ==
    enrich_one(VillaChelsea,
               [id \in {VillaChelsea.match_id} |->
                    extract_odds_data(OddsRecord(Aston_Villa, Chelsea,
                                                 Bookmakers(Aston_Villa, Chelsea, 210, 305, 400)))])
\* played and unplayed matches, without and with odds
CsvMatches == {PlayedMatch, PlayedMatchWithOdds, VillaChelsea, VillaChelseaWithOdds}
\* the longest list saved
MaxCsv == 3

SaveToCsv ==
    /\ op = "idle"
    /\ \E matches \in SeqsUpTo(CsvMatches, MaxCsv) :
        /\ op' = "save_to_csv"
        /\ arg' = [matches |-> matches]
        /\ ret' = [file |-> save_to_csv(matches)]
        /\ UNCHANGED <<store, today, requests>>
    /\ UNCHANGED transport

LoadFromCsv ==
    /\ op = "save_to_csv"
    /\ op' = "load_from_csv"
    /\ arg' = [matches |-> arg.matches, file |-> ret.file]
    /\ ret' = [matches |-> load_from_csv(ret.file)]
    /\ UNCHANGED <<store, today, requests>>
    /\ UNCHANGED transport

NextCsv == SaveToCsv \/ LoadFromCsv \/ Done

SpecCsv == Init /\ [][NextCsv]_vars

----------------------------------------------------------------------------
(* Claims about the CSV backup, checked under SpecCsv *)

\* C22: load_from_csv of the file save_to_csv wrote gives back the saved
\* records, field for field, null fields and odds mappings included
C22_CsvRoundTrip ==
    op = "load_from_csv" => ret.matches = arg.matches

----------------------------------------------------------------------------
(* Re-runs: run_full_pipeline with its extraction, and update_odds_only,   *)
(* on one store as the days pass                                           *)

\* lines 43-69 of etl_main.py, include_odds being True: the season's
\* matches, enriched when there are any
extract_season_data(season, raw_matches, current_date, odds_source) ==
    LET matches == get_season_matches(season, raw_matches)
    IN  IF matches = <<>> THEN <<>>
        ELSE enrich_matches_with_odds(matches, current_date, odds_source)

\* what the football source answers a season with: the played fixture of
\* 2024-05-19, alone and with a fixture of the same day without a score
RerunRaw ==
    LET played == RawMatch(<<"2","0","2","4","-","0","5","-","1","9","T","1","5",":","0","0",":","0","0","Z">>,
                           Man_City, West_Ham, [home |-> Some(3), away |-> Some(1)])
        unplayed == RawMatch(<<"2","0","2","4","-","0","5","-","1","9","T","1","5",":","0","0",":","0","0","Z">>,
                             Aston_Villa, Chelsea, [home |-> None, away |-> None])
    IN  { <<played>>, <<played, unplayed>> }
\* what the odds source answers a date with: nothing, or the prices of the
\* played fixture
RerunOdds ==
    { <<>>, <<OddsRecord(Man_City, West_Ham, Bookmakers(Man_City, West_Ham, 125, 650, 1200))>> }

RerunProcessSeason ==
    /\ op = "run_full_pipeline"
    /\ ~ret.returned
    /\ arg.position <= Len(arg.seasons)
    /\ \E raw_matches \in RerunRaw :
        \E odds_source \in [dates_to_process(get_season_matches(arg.seasons[arg.position],
                                                                raw_matches), today)
                                -> RerunOdds] :
            LET matches == extract_season_data(arg.seasons[arg.position], raw_matches,
                                               today, odds_source)
            IN  \E fails \in (IF matches = <<>> \/ transform_and_validate_raises(matches)
                              THEN {<<>>}
                              ELSE [1..Len(transform_and_validate(matches)) -> Failures]) :
                    LET season == process_season(store, matches, fails)
                    IN  /\ store' = season.rows
                        /\ arg' = [arg EXCEPT !.position = @ + 1, !.matches = matches,
                                              !.rows = store]
                        /\ ret' = [ret EXCEPT
                                     !.total_matches_processed = @ + season.processed,
                                     !.total_inserted = @ + season.inserted,
                                     !.total_updated = @ + season.updated,
                                     !.total_errors = @ + season.errors]
                        /\ UNCHANGED <<op, today, requests>>
    /\ UNCHANGED transport

NextRerun ==
    \/ RunFullPipeline
    \/ RerunProcessSeason
    \/ RunFullPipelineReturn
    \/ UpdateOddsOnly
    \/ AdvanceDay
    \/ Done

SpecRerun == Init /\ [][NextRerun]_vars

----------------------------------------------------------------------------
(* Claims about re-runs, checked under SpecRerun *)

\* C23: a stored row that has odds keeps having odds: no step of
\* run_full_pipeline or of update_odds_only leaves it with a null
\* odds_opening
C23_OddsNeverLost ==
    [][\A i \in 1..Len(store) :
          Get(store[i], "odds_opening") # None
              => /\ i <= Len(store')
                 /\ Get(store'[i], "odds_opening") # None]_vars

----------------------------------------------------------------------------
(* Claims about the labels of the outcomes, checked under SpecExtract *)

\* the code of an outcome when home and away are the names it is compared
\* with
CodeBy(outcome, home, away) ==
    IF outcome.name = home THEN "1" ELSE IF outcome.name = away THEN "2" ELSE "X"
\* the extracted prices are those of the outcomes of the market, each under
\* its code by home and away, the last outcome of a code giving the price
LabelledBy(home, away) ==
    LET outcomes == h2h_outcomes(arg)
        odds == ret.odds.opening[1]
    IN  /\ DOMAIN odds = { CodeBy(outcomes[i], home, away) : i \in 1..Len(outcomes) }
        /\ \A i \in 1..Len(outcomes) :
              (\A j \in (i + 1)..Len(outcomes) :
                   CodeBy(outcomes[j], home, away) # CodeBy(outcomes[i], home, away))
                  => odds[CodeBy(outcomes[i], home, away)] = outcomes[i].price
Labelled == op = "extract_odds_data" /\ ~ret.raised /\ ret.odds.opening # None

\* C24 as stated: an outcome is "1" when its name is the canonical home
\* team of the record, "2" when it is the canonical away team, "X"
\* otherwise, also for a record that names its teams by an alias
C24_LabelsByCanonicalName ==
    Labelled => LabelledBy(OddsAPI_normalize_team_name(Get(arg, "home_team")),
                           OddsAPI_normalize_team_name(Get(arg, "away_team")))

\* C24 amended: an outcome is "1" when its name is the home_team the odds
\* record itself prints, "2" when it is the away_team the record prints,
\* "X" otherwise; the names are compared as printed, before normalisation
C24_LabelsByPrintedName ==
    Labelled => LabelledBy(Get(arg, "home_team"), Get(arg, "away_team"))

\* a record that names its home team by an alias, with an outcome of that
\* name: its price is under "1"
C24_Witness ==
    /\ Labelled
    /\ OddsAPI_normalize_team_name(arg.home_team) # arg.home_team
    /\ \E i \in 1..Len(h2h_outcomes(arg)) :
          /\ h2h_outcomes(arg)[i].name = arg.home_team
          /\ Has(ret.odds.opening[1], "1")
          /\ ~Has(ret.odds.opening[1], "X")

----------------------------------------------------------------------------
(* The transport layer of the two API clients: _rate_limit, _make_request  *)
(* under @retry(tries=3, delay=1, backoff=2), and the two calls that catch *)
(* its exception.  Times are whole seconds.                                *)

MAX_REQUESTS_PER_MINUTE == 10
\* the arguments of the retry decorator
tries == 3
delay == 1
backoff == 2

\* _rate_limit at current_time: the client's counter and window start
\* after it, and the time at which it returns (it sleeps to the end of the
\* window when the counter is full)
rate_limit(client, current_time) ==
    IF current_time - client.last_request_time < 60
    THEN IF client.request_count >= MAX_REQUESTS_PER_MINUTE
         THEN LET sleep_time == 60 - (current_time - client.last_request_time)
              IN  [request_count |-> 0,
                   last_request_time |-> current_time + sleep_time,
                   clock |-> current_time + sleep_time]
         ELSE [request_count |-> client.request_count,
               last_request_time |-> client.last_request_time,
               clock |-> current_time]
    ELSE [request_count |-> 0, last_request_time |-> current_time, clock |-> current_time]

\* what requests.get can do: answer with a status, or raise after the
\* request was sent (a connection reset)
Statuses == {"200", "422", "429", "500", "reset"}

\* one attempt of FootballDataAPI._make_request raises
football_attempt_raises(status) == status # "200"
\* one attempt of OddsAPI._make_request raises: a 422 returns []
odds_attempt_raises(status) == status \notin {"200", "422"}

\* the seconds the attempt sleeps before it raises (line 58)
attempt_sleep(status) == IF status = "429" THEN 60 ELSE 0

\* a decorator with five tries
retry_exhausted_after_five(attempts) == attempts >= 5

\* the retry decorator after a failed attempt, attempts being the number
\* of attempts made so far with this one: it raises when no try is left
retry_exhausted(attempts) == attempts >= tries

\* get_competition_matches: data.get('matches', []) of the JSON body
get_competition_matches_returns(body) == Get(body, "matches")
\* get_historical_odds: data if isinstance(data, list) else []
get_historical_odds_returns(body, is_list) == IF is_list THEN body ELSE <<>>

\* the times among times that are less than 60 seconds before now
Recent(times, now) == SelectSeq(times, LAMBDA t : now - t < 60)

\* one attempt of _make_request by client c, requests.get answering with
\* status, raised telling whether the attempt raises: _rate_limit, the
\* request, the counter (a reset raises before line 52 counts), the sleep
\* of a 429 and, when the decorator tries again, its sleep
attempt(c, status, raised) ==
    LET limited == rate_limit(clients[c], clock)
        attempts == arg.attempts + 1
        after == limited.clock + attempt_sleep(status)
    IN  [clients |-> [clients EXCEPT ![c] =
                         [request_count |-> limited.request_count
                                              + (IF status = "reset" THEN 0 ELSE 1),
                          last_request_time |-> limited.last_request_time]],
         sent |-> [sent EXCEPT ![c] = Recent(Append(@, limited.clock), limited.clock)],
         clock |-> IF raised /\ ~retry_exhausted(attempts) THEN after + arg.delay
                   ELSE after,
         arg |-> [attempts |-> attempts,
                  failed |-> arg.failed + (IF raised THEN 1 ELSE 0),
                  delay |-> IF raised THEN arg.delay * backoff ELSE arg.delay]]

\* the JSON bodies of a 200: with and without the key 'matches' for the
\* football source, a list and an error object (held as its items) for the
\* odds source
FootballBodies == { [matches |-> <<"match">>], [message |-> <<"error">>] }
OddsBodies == { [body |-> <<"odds">>, is_list |-> TRUE],
                [body |-> << <<"message", "error">> >>, is_list |-> FALSE] }
\* the times at which the caller makes its calls
CallTimes == {0, 59}

GetCompetitionMatches ==
    /\ op = "idle"
    /\ clock \in CallTimes
    /\ op' = "get_competition_matches"
    /\ arg' = [attempts |-> 0, failed |-> 0, delay |-> delay]
    /\ ret' = [returned |-> FALSE]
    /\ UNCHANGED <<store, today, requests, transport>>

GetHistoricalOdds ==
    /\ op = "idle"
    /\ clock \in CallTimes
    /\ op' = "get_historical_odds"
    /\ arg' = [attempts |-> 0, failed |-> 0, delay |-> delay]
    /\ ret' = [returned |-> FALSE]
    /\ UNCHANGED <<store, today, requests, transport>>

\* lines 44-62 of football_data.py under the decorator, and the try block
\* of lines 82-86
FootballMakeRequest ==
    /\ op = "get_competition_matches"
    /\ ~ret.returned
    /\ \E status \in Statuses :
        LET made == attempt("football", status, football_attempt_raises(status))
        IN  /\ clients' = made.clients
            /\ sent' = made.sent
            /\ clock' = made.clock
            /\ arg' = made.arg
            /\ IF ~football_attempt_raises(status)
               THEN \E body \in FootballBodies :
                       ret' = [returned |-> TRUE,
                               data |-> get_competition_matches_returns(body)]
               ELSE IF retry_exhausted(made.arg.attempts)
               THEN ret' = [returned |-> TRUE, data |-> <<>>]
               ELSE ret' = ret
    /\ UNCHANGED <<store, today, op, requests>>

\* lines 41-68 of odds_api.py under the decorator, and the try block of
\* lines 93-98
OddsMakeRequest ==
    /\ op = "get_historical_odds"
    /\ ~ret.returned
    /\ \E status \in Statuses :
        LET made == attempt("odds", status, odds_attempt_raises(status))
        IN  /\ clients' = made.clients
            /\ sent' = made.sent
            /\ clock' = made.clock
            /\ arg' = made.arg
            /\ IF status = "200"
               THEN \E answer \in OddsBodies :
                       ret' = [returned |-> TRUE,
                               data |-> get_historical_odds_returns(answer.body,
                                                                    answer.is_list)]
               ELSE IF status = "422"
               THEN ret' = [returned |-> TRUE, data |-> get_historical_odds_returns(<<>>, TRUE)]
               ELSE IF retry_exhausted(made.arg.attempts)
               THEN ret' = [returned |-> TRUE, data |-> <<>>]
               ELSE ret' = ret
    /\ UNCHANGED <<store, today, op, requests>>

\* the caller takes the result of a call that has returned
TransportDone ==
    /\ op \in {"get_competition_matches", "get_historical_odds"}
    /\ ret.returned
    /\ op' = "idle"
    /\ arg' = <<>>
    /\ ret' = <<>>
    /\ UNCHANGED <<store, today, requests, transport>>

\* the caller lets time pass until its next call
Wait ==
    /\ op = "idle"
    /\ \E time \in CallTimes :
        /\ time > clock
        /\ clock' = time
        /\ sent' = [c \in DOMAIN sent |-> Recent(sent[c], time)]
    /\ UNCHANGED <<store, today, op, arg, ret, requests, clients>>

NextTransport ==
    \/ GetCompetitionMatches
    \/ GetHistoricalOdds
    \/ FootballMakeRequest
    \/ OddsMakeRequest
    \/ TransportDone
    \/ Wait

SpecTransport == Init /\ [][NextTransport]_vars

----------------------------------------------------------------------------
(* Claims about the transport layer, checked under SpecTransport *)

InCall == op \in {"get_competition_matches", "get_historical_odds"}
AllFailed == ret.returned /\ arg.failed = arg.attempts

\* C25: a call makes at most 3 attempts; when each of them fails, the call
\* has made 3 and returns the empty list, on which the season gives no
\* candidates and leaves the store alone, and the date gives no odds
C25_RetriesThenEmpty ==
    InCall =>
        /\ arg.attempts <= 3
        /\ ~ret.returned => arg.attempts < 3
        /\ AllFailed =>
              /\ arg.attempts = 3
              /\ ret.data = <<>>
              /\ op = "get_competition_matches" =>
                    /\ get_season_matches(SeasonAt(1), ret.data) = <<>>
                    /\ process_season(store, get_season_matches(SeasonAt(1), ret.data),
                                      <<>>).rows = store
              /\ op = "get_historical_odds" =>
                    enrich_matches_with_odds(<<PlayedMatch>>, today,
                        [d \in dates_to_process(<<PlayedMatch>>, today) |-> ret.data])
                      = <<PlayedMatch>>

\* a call whose three attempts failed, one of them with a 429, has returned
C25_Witness ==
    /\ InCall
    /\ AllFailed
    /\ arg.attempts = 3
    /\ clock >= 59 + 60

\* C29: after every request a client's request_count is at most
\* MAX_REQUESTS_PER_MINUTE, and the requests it has issued within any 60
\* seconds are at most that many
C29_RateLimited ==
    \A c \in DOMAIN clients :
        /\ clients[c].request_count <= MAX_REQUESTS_PER_MINUTE
        /\ Len(sent[c]) <= MAX_REQUESTS_PER_MINUTE

----------------------------------------------------------------------------
(* Two pipeline instances on one store: each upserts one match, the        *)
(* existence check and the write of an instance being two store calls     *)

\* line 38: the select of the existence check, which raises or tells
\* whether a row with the match_id exists
upsert_check(rows, match, fail) ==
    IF ~Has(match, "match_id") \/ fail = "check"
    THEN [raised |-> TRUE, existing |-> FALSE]
    ELSE [raised |-> FALSE, existing |-> Exists(rows, match.match_id)]

\* a write that looks for the row again, in one step with the write
upsert_write_rechecks(rows, match, existing, fail) ==
    IF fail = "write" THEN [rows |-> rows, outcome |-> "error"]
    ELSE IF Exists(rows, match.match_id)
    THEN [rows |-> Update(rows, match), outcome |-> "updated"]
    ELSE [rows |-> Insert(rows, match), outcome |-> "inserted"]

\* lines 40-48: the update or the insert, as the check found
upsert_write(rows, match, existing, fail) ==
    IF fail = "write" THEN [rows |-> rows, outcome |-> "error"]
    ELSE IF existing
    THEN [rows |-> Update(rows, match), outcome |-> "updated"]
    ELSE [rows |-> Insert(rows, match), outcome |-> "inserted"]

Instances == {1, 2}
\* what the instances upsert: a match without and with odds, and another
RaceMatches == {PlayedMatch, PlayedMatchWithOdds, VillaChelsea}
\* the instances start while the store has fewer rows than this
MaxRows == 2

ConcurrentInsertMatches ==
    /\ op = "idle"
    /\ Len(store) < MaxRows
    /\ \E matches \in [Instances -> RaceMatches], fails \in [Instances -> Failures] :
        /\ op' = "concurrent_insert_matches"
        /\ arg' = [matches |-> matches, fails |-> fails, rows |-> store]
        /\ ret' = [i \in Instances |->
                      [pc |-> "check", existing |-> FALSE, outcome |-> "none"]]
    /\ UNCHANGED <<store, today, requests, transport>>

CheckExisting ==
    /\ op = "concurrent_insert_matches"
    /\ \E i \in Instances :
        /\ ret[i].pc = "check"
        /\ LET checked == upsert_check(store, arg.matches[i], arg.fails[i])
           IN  ret' = [ret EXCEPT ![i] =
                          IF checked.raised
                          THEN [pc |-> "done", existing |-> FALSE, outcome |-> "error"]
                          ELSE [pc |-> "write", existing |-> checked.existing,
                                outcome |-> "none"]]
    /\ UNCHANGED <<store, today, op, arg, requests, transport>>

WriteMatch ==
    /\ op = "concurrent_insert_matches"
    /\ \E i \in Instances :
        /\ ret[i].pc = "write"
        /\ LET written == upsert_write(store, arg.matches[i], ret[i].existing,
                                       arg.fails[i])
           IN  /\ store' = written.rows
               /\ ret' = [ret EXCEPT ![i].pc = "done", ![i].outcome = written.outcome]
    /\ UNCHANGED <<today, op, arg, requests, transport>>

\* both instances have returned
ConcurrentDone ==
    /\ op = "concurrent_insert_matches"
    /\ \A i \in Instances : ret[i].pc = "done"
    /\ op' = "idle"
    /\ arg' = <<>>
    /\ ret' = <<>>
    /\ UNCHANGED <<store, today, requests, transport>>

NextRace == ConcurrentInsertMatches \/ CheckExisting \/ WriteMatch \/ ConcurrentDone

SpecRace == Init /\ [][NextRace]_vars

----------------------------------------------------------------------------
(* Claims about two instances, checked under SpecRace *)

RowsOf(match_id) == { k \in 1..Len(store) : Get(store[k], "match_id") = match_id }
\* both instances upsert one match_id that the store did not hold, no store
\* call failed, and both existence checks found no row
BothSawNoRow ==
    /\ op = "concurrent_insert_matches"
    /\ arg.matches[1].match_id = arg.matches[2].match_id
    /\ ~Exists(arg.rows, arg.matches[1].match_id)
    /\ \A i \in Instances :
          /\ arg.fails[i] = "none"
          /\ ret[i].pc = "done"
          /\ ~ret[i].existing

\* C26: when both instances checked before either wrote, both insert, and
\* the store holds two rows of the match_id
C26_RaceInsertsTwice ==
    BothSawNoRow =>
        /\ \A i \in Instances : ret[i].outcome = "inserted"
        /\ Cardinality(RowsOf(arg.matches[1].match_id)) = 2

\* the race has happened: two rows of one match_id
C26_Witness ==
    /\ BothSawNoRow
    /\ Cardinality(RowsOf(arg.matches[1].match_id)) = 2
    /\ store[Len(store)] # store[Len(store) - 1]

----------------------------------------------------------------------------
(* Claims about the counts, checked under SpecPipeline *)

\* C27: insert_matches returns counts that add up to the length of the
\* batch, and the totals of run_full_pipeline add up to the matches
\* processed, after every season and in the summary
C27_CountsConserved ==
    /\ op = "insert_matches"
          => ret.inserted + ret.updated + ret.errors = Len(arg.matches)
    /\ op = "run_full_pipeline"
          => ret.total_matches_processed
               = ret.total_inserted + ret.total_updated + ret.total_errors

\* a summary in which each of the three counters has counted
C27_Witness ==
    /\ op = "run_full_pipeline"
    /\ ret.returned
    /\ ret.total_inserted > 0
    /\ ret.total_updated > 0
    /\ ret.total_errors > 0

----------------------------------------------------------------------------
(* Claims about the frame of the odds join, checked under SpecEnrich *)

\* C28: enrich_matches_with_odds returns a list as long as its input and in
\* its order, the records of the input list are afterwards what they were,
\* and a returned record differs from its input record at most in
\* odds_opening and odds_closing
C28_EnrichFrame ==
    (op = "enrich_matches_with_odds" /\ ~ret.raised) =>
        /\ Len(ret.matches) = Len(arg.matches)
        /\ ret.inputs = arg.matches
        /\ \A i \in 1..Len(arg.matches) :
              i <= Len(ret.matches) /\ SameButOdds(arg.matches[i], ret.matches[i])

\* two matches were enriched, one of them got odds and the other did not
C28_Witness ==
    /\ op = "enrich_matches_with_odds"
    /\ ~ret.raised
    /\ Len(arg.matches) = 2
    /\ \E i, j \in 1..2 :
          /\ ret.matches[i] # arg.matches[i]
          /\ ret.matches[i].odds_opening # None
          /\ ret.matches[j] = arg.matches[j]

============================================================================
